---- MODULE Spec2Model ----
(***************************************************************************)
(* AEGIS ML: the anomaly detector (models/anomaly_detector.py), its        *)
(* real-time tracker, and the rate limit optimizer                         *)
(* (models/rate_limit_optimizer.py) as state machines.                     *)
(*                                                                         *)
(* Numbers.  The code computes in binary floating point; the model uses    *)
(* exact integers in fixed units:                                          *)
(*   - ensemble scores (score_samples, offset_, decision scores,           *)
(*     score_threshold) in hundredths;                                     *)
(*   - normalized_score in thousandths;                                    *)
(*   - confidence of an AnomalyResult in units of 1/CONFIDENCE_ONE;        *)
(*   - threshold_multiplier in tenths, contamination in percent;           *)
(*   - a z-score (value - mean) / std is kept as the pair (num, den2)      *)
(*     standing for num / sqrt(den2), so comparisons are exact.            *)
(* The isolation forest and the scaler are library code: a fit is a        *)
(* nondeterministic choice of the score the fitted pipeline gives to each  *)
(* sample; offset_, decision_function and predict follow the library's     *)
(* contract.                                                               *)
(***************************************************************************)
EXTENDS Integers, Sequences, FiniteSets, TLC

VARIABLES
    detector,    \* the AnomalyDetector instance
    tracker,     \* the RealTimeAnomalyDetector wrapping `detector`
    clock,       \* datetime.utcnow(), advanced by every successful train
    optimizer,   \* the RateLimitOptimizer instance
    disk,        \* the directories save writes and load reads
    calls,       \* history: the process calls since creation or reset
    saved,       \* history: the objects as they were when save wrote them
    outcome,     \* history: the last operation, its arguments and its result
    threads,     \* the process calls in flight on `tracker`, by thread
    server       \* the API server's module globals (api/flask_server.py)

vars == <<detector, tracker, optimizer, clock, disk, calls, saved, outcome,
          threads, server>>

----------------------------------------------------------------------------
(* Bounds of the model *)

MaxCopies == 5        \* copies of one sample in a training set
MaxClock == 2         \* successful train calls in one behaviour
MaxWindow == 2        \* largest window_size of a tracker
MaxPersist == 3       \* largest persistence_threshold of a tracker
MaxCalls == 4         \* process calls between two resets
MaxRoundInput == 6000 \* largest value given to _round_to_nice_number
MaxClusters == 4      \* largest n_clusters given to cluster_endpoints
MaxBatch == 2         \* longest list given to detect_batch
MaxSeries == 8        \* longest series of samples held by a trend window
MaxInstances == 3     \* detector instances the server constructs
MaxDetects == 1       \* /detect requests answered by one tracker

----------------------------------------------------------------------------
(* Helpers *)

Min(a, b) == IF a <= b THEN a ELSE b
Max(a, b) == IF a >= b THEN a ELSE b

RECURSIVE SumFn(_, _)
SumFn(f, S) ==
    IF S = {} THEN 0
    ELSE LET x == CHOOSE y \in S : TRUE IN f[x] + SumFn(f, S \ {x})

SetMin(S) == CHOOSE x \in S : \A y \in S : x <= y

RECURSIVE RatGreater(_, _, _, _)
\* p1 / q1 > p2 / q2 for p >= 0 and q > 0, without forming the cross products
RatGreater(p1, q1, p2, q2) ==
    LET i1 == p1 \div q1
        i2 == p2 \div q2
        r1 == p1 % q1
        r2 == p2 % q2
    IN IF i1 # i2 THEN i1 > i2
       ELSE IF r1 = 0 THEN FALSE
       ELSE IF r2 = 0 THEN TRUE
       ELSE RatGreater(q2, r2, q1, r1)

----------------------------------------------------------------------------
(* TrafficMetrics: the samples the model draws from.  error_rate is in     *)
(* percent.                                                                *)

FEATURE_NAMES ==
    <<"requests_per_second", "avg_latency_ms", "p95_latency_ms",
      "p99_latency_ms", "error_rate">>

FeatureSet == {FEATURE_NAMES[i] : i \in 1..Len(FEATURE_NAMES)}

Normal == [requests_per_second |-> 50, avg_latency_ms |-> 30,
           p95_latency_ms |-> 60, p99_latency_ms |-> 90, error_rate |-> 2]
Busy   == [requests_per_second |-> 60, avg_latency_ms |-> 40,
           p95_latency_ms |-> 80, p99_latency_ms |-> 120, error_rate |-> 1]
Spike  == [requests_per_second |-> 500, avg_latency_ms |-> 30,
           p95_latency_ms |-> 60, p99_latency_ms |-> 90, error_rate |-> 2]

Metrics == {Normal, Busy, Spike}

----------------------------------------------------------------------------
(* AnomalyDetector *)

DEFAULT_SCORE_THRESHOLD == -50
MIN_TRAINING_SAMPLES == 10
CONFIDENCE_ONE == 50000
NORMALIZED_ONE == 1000

\* (contamination, threshold_multiplier) of the detectors built: the
\* constructor defaults and one override of both
DetectorConfigs == {<<10, 20>>, <<20, 25>>}

\* score_samples of a fitted forest, per sample
ScoreValues == {-90, -40}
Fits == [Metrics -> ScoreValues]

\* the rows of a training frame: copies of each sample, and rows holding an
\* infinite value
RowCounts == {0, 1, MaxCopies}
TrainingSets ==
    {data \in [rows : [Metrics -> RowCounts], inf_rows : {0, MaxCopies}] :
        data.rows[Normal] # 0 /\ data.rows[Busy] # 1}

NoBaselines == [f \in {} |-> 0]

NewDetector(c, tm) ==
    [contamination |-> c,
     threshold_multiplier |-> tm,
     model |-> [fitted |-> FALSE],
     scaler |-> [fitted |-> FALSE],
     baselines |-> NoBaselines,
     is_trained |-> FALSE,
     training_timestamp |-> 0,
     training_samples |-> 0,
     score_threshold |-> DEFAULT_SCORE_THRESHOLD]

\* len(df) after the rows holding infinite values are dropped
UsableRows(data) == SumFn(data.rows, Metrics)

\* np.percentile(values, q), linear interpolation, over the multiset that
\* holds rows[m] copies of val[m]
CountLE(val, rows, v) ==
    SumFn([m \in Metrics |-> IF val[m] <= v THEN rows[m] ELSE 0], Metrics)

KthSmallest(val, rows, k) ==
    SetMin({val[m] : m \in {x \in Metrics :
                              rows[x] > 0 /\ CountLE(val, rows, val[x]) >= k}})

Percentile(val, rows, q) ==
    LET n   == SumFn(rows, Metrics)
        pos == q * (n - 1)
        lo  == pos \div 100
        fr  == pos % 100
        a   == KthSmallest(val, rows, lo + 1)
        b   == IF fr = 0 THEN a ELSE KthSmallest(val, rows, lo + 2)
    IN a + (fr * (b - a)) \div 100

\* IsolationForest.fit with a numeric contamination
FitOffset(fit, rows, c) == Percentile(fit, rows, c)

\* IsolationForest.decision_function
DecisionFunction(model, m) == model.score_samples[m] - model.offset_

\* IsolationForest.predict
Predict(model, m) == IF DecisionFunction(model, m) < 0 THEN -1 ELSE 1

ComputeBaselines(rows) ==
    [f \in FeatureSet |->
        [n     |-> SumFn(rows, Metrics),
         sum   |-> SumFn([m \in Metrics |-> rows[m] * m[f]], Metrics),
         sumsq |-> SumFn([m \in Metrics |-> rows[m] * m[f] * m[f]], Metrics)]]

\* the detector after a successful train(data) whose fit is `fit`
Trained(d, data, fit, now) ==
    LET rows  == data.rows
        off   == FitOffset(fit, rows, d.contamination)
        model == [fitted |-> TRUE, score_samples |-> fit, offset_ |-> off]
        scores == [m \in Metrics |-> DecisionFunction(model, m)]
    IN [d EXCEPT
          !.scaler = [fitted |-> TRUE],
          !.model = model,
          !.baselines = ComputeBaselines(rows),
          !.score_threshold = Percentile(scores, rows, 100 - d.contamination),
          !.is_trained = TRUE,
          !.training_timestamp = now,
          !.training_samples = UsableRows(data)]

TrainFails(data) == UsableRows(data) < MIN_TRAINING_SAMPLES

\* the three files save writes: the forest, the scaler and the metadata
DetectorFiles(d) ==
    [isolation_forest |-> d.model,
     scaler |-> d.scaler,
     metadata |-> [contamination |-> d.contamination,
                   threshold_multiplier |-> d.threshold_multiplier,
                   score_threshold |-> d.score_threshold,
                   baselines |-> d.baselines,
                   training_timestamp |-> d.training_timestamp,
                   training_samples |-> d.training_samples,
                   feature_names |-> FEATURE_NAMES]]

\* load that leaves the baselines of the new instance empty
LoadedDetectorNoBaselines(files) ==
    [NewDetector(files.metadata.contamination,
                 files.metadata.threshold_multiplier) EXCEPT
        !.model = files.isolation_forest,
        !.scaler = files.scaler,
        !.score_threshold = files.metadata.score_threshold,
        !.training_timestamp = files.metadata.training_timestamp,
        !.training_samples = files.metadata.training_samples,
        !.is_trained = TRUE]

\* the instance load builds from the files
LoadedDetector(files) ==
    [NewDetector(files.metadata.contamination,
                 files.metadata.threshold_multiplier) EXCEPT
        !.model = files.isolation_forest,
        !.scaler = files.scaler,
        !.score_threshold = files.metadata.score_threshold,
        !.baselines = files.metadata.baselines,
        !.training_timestamp = files.metadata.training_timestamp,
        !.training_samples = files.metadata.training_samples,
        !.is_trained = TRUE]

----------------------------------------------------------------------------
(* detect *)

\* 1 / (1 + exp(5 * raw)) in thousandths, for raw = -50..50 hundredths
SigmoidTimes5 ==
    <<924, 921, 917, 913, 909, 905, 900, 896, 891, 886, 881, 875, 870, 864,
      858, 852, 846, 839, 832, 825, 818, 810, 802, 794, 786, 777, 769, 760,
      750, 741, 731, 721, 711, 701, 690, 679, 668, 657, 646, 634, 622, 611,
      599, 587, 574, 562, 550, 537, 525, 512, 500, 488, 475, 463, 450, 438,
      426, 413, 401, 389, 378, 366, 354, 343, 332, 321, 310, 299, 289, 279,
      269, 259, 250, 240, 231, 223, 214, 206, 198, 190, 182, 175, 168, 161,
      154, 148, 142, 136, 130, 125, 119, 114, 109, 104, 100, 95, 91, 87, 83,
      79, 76>>

\* 1 / (1 + exp(3 * raw)) in thousandths, for raw = -50..50 hundredths
SigmoidTimes3 ==
    <<818, 813, 808, 804, 799, 794, 789, 784, 779, 774, 769, 763, 758, 752,
      746, 741, 735, 729, 723, 717, 711, 705, 698, 692, 686, 679, 673, 666,
      659, 652, 646, 639, 632, 625, 618, 611, 603, 596, 589, 582, 574, 567,
      560, 552, 545, 537, 530, 522, 515, 507, 500, 493, 485, 478, 470, 463,
      455, 448, 440, 433, 426, 418, 411, 404, 397, 389, 382, 375, 368, 361,
      354, 348, 341, 334, 327, 321, 314, 308, 302, 295, 289, 283, 277, 271,
      265, 259, 254, 248, 242, 237, 231, 226, 221, 216, 211, 206, 201, 196,
      192, 187, 182>>

NormalizeScore(raw) == Max(0, Min(SigmoidTimes5[raw + 51], NORMALIZED_ONE))

ZERO_Z == [num |-> 0, den2 |-> 1]
HALF_Z == [num |-> 1, den2 |-> 4]

ComputeZScore(value, b) ==
    LET den2 == b.n * b.sumsq - b.sum * b.sum
    IN IF den2 = 0 THEN ZERO_Z
       ELSE [num |-> b.n * value - b.sum, den2 |-> den2]

\* z > tm and z < -tm, tm in tenths
ZAbove(z, tm) ==
    z.num > 0 /\ RatGreater(z.num * z.num, z.den2, tm * tm, 100)
ZBelowMinus(z, tm) ==
    z.num < 0 /\ RatGreater(z.num * z.num, z.den2, tm * tm, 100)
ZAbs(z) == [z EXCEPT !.num = IF z.num < 0 THEN -z.num ELSE z.num]
\* a > b for non-negative z-scores
ZGreater(a, b) == RatGreater(a.num * a.num, a.den2, b.num * b.num, b.den2)
ZMaxOf(a, b) == IF ZGreater(b, a) THEN b ELSE a

\* type_scores, as the sequence of its (type, score) items in insertion order
TypeScores(d, m) ==
    LET tm == d.threshold_multiplier
        Z(f) == ComputeZScore(m[f], d.baselines[f])
        Has(f) == f \in DOMAIN d.baselines
        traffic ==
            IF ~Has("requests_per_second") THEN <<>>
            ELSE IF ZAbove(Z("requests_per_second"), tm)
                 THEN <<[type |-> "traffic_spike",
                         score |-> Z("requests_per_second")]>>
            ELSE IF ZBelowMinus(Z("requests_per_second"), tm)
                 THEN <<[type |-> "traffic_drop",
                         score |-> ZAbs(Z("requests_per_second"))]>>
            ELSE <<>>
        avg ==
            IF Has("avg_latency_ms") /\ ZAbove(Z("avg_latency_ms"), tm)
            THEN <<[type |-> "latency_spike", score |-> Z("avg_latency_ms")]>>
            ELSE <<>>
        latency ==
            IF Has("p95_latency_ms") /\ ZAbove(Z("p95_latency_ms"), tm)
            THEN <<[type |-> "latency_spike",
                    score |-> ZMaxOf(IF avg = <<>> THEN ZERO_Z
                                     ELSE avg[1].score,
                                     Z("p95_latency_ms"))]>>
            ELSE avg
        errors ==
            IF Has("error_rate") /\ ZAbove(Z("error_rate"), tm)
            THEN <<[type |-> "error_rate_spike", score |-> Z("error_rate")]>>
            ELSE <<>>
    IN traffic \o latency \o errors

RECURSIVE MaxItem(_)
\* max(type_scores, key=type_scores.get): the first item of the largest score
MaxItem(items) ==
    IF Len(items) = 1 THEN items[1]
    ELSE LET rest == MaxItem(Tail(items))
         IN IF ZGreater(rest.score, items[1].score) THEN rest ELSE items[1]

\* two types in type_scores already reported as multi_dimensional
IdentifyAnomalyTypeFromTwo(d, m) ==
    LET items == TypeScores(d, m)
    IN IF items = <<>> THEN [type |-> "pattern_anomaly", score |-> HALF_Z]
       ELSE IF Len(items) >= 2
            THEN [type |-> "multi_dimensional", score |-> MaxItem(items).score]
       ELSE MaxItem(items)

IdentifyAnomalyType(d, m) ==
    LET items == TypeScores(d, m)
    IN IF items = <<>> THEN [type |-> "pattern_anomaly", score |-> HALF_Z]
       ELSE IF Len(items) > 2
            THEN [type |-> "multi_dimensional", score |-> MaxItem(items).score]
       ELSE MaxItem(items)

DetermineSeverity(normalized) ==
    IF normalized >= 900 THEN "critical"
    ELSE IF normalized >= 750 THEN "high"
    ELSE IF normalized >= 600 THEN "medium"
    ELSE "low"

\* min(type_score / 5, 1.0) in hundredths, rounded down
TypeConfidence(z) ==
    IF z.num <= 0 THEN 50
    ELSE IF ~RatGreater(25, 1, z.num * z.num, z.den2) THEN 100
    ELSE CHOOSE k \in 0..99 :
            /\ ~RatGreater(k * k, 400, z.num * z.num, z.den2)
            /\ RatGreater((k + 1) * (k + 1), 400, z.num * z.num, z.den2)

CalculateConfidence(raw, type_score) ==
    LET if_confidence == SigmoidTimes3[raw + 51]
        type_confidence == TypeConfidence(type_score)
    IN Max(0, Min(35 * if_confidence + 150 * type_confidence, CONFIDENCE_ONE))

\* the explanation: its template and the figures the template cites
BuildExplanation(d, m, is_anomaly, type) ==
    LET mean(f) == IF f \in DOMAIN d.baselines
                   THEN <<d.baselines[f].sum, d.baselines[f].n>>
                   ELSE <<0, 1>>
        plain(t) == [confirmed |-> FALSE, intervals |-> 0, template |-> t,
                     observed |-> <<>>, baseline |-> <<>>]
    IN IF ~is_anomaly THEN plain("within_normal_parameters")
       ELSE IF type \in {"traffic_spike", "traffic_drop"}
            THEN [plain(type) EXCEPT
                    !.observed = <<m.requests_per_second>>,
                    !.baseline = mean("requests_per_second")]
       ELSE IF type = "latency_spike"
            THEN [plain(type) EXCEPT
                    !.observed = <<m.avg_latency_ms, m.p95_latency_ms>>,
                    !.baseline = mean("avg_latency_ms")]
       ELSE IF type = "error_rate_spike"
            THEN [plain(type) EXCEPT
                    !.observed = <<m.error_rate>>,
                    !.baseline = mean("error_rate")]
       ELSE plain(type)

\* detect grading and typing every sample, anomalous or not
DetectResultAlwaysGraded(d, m) ==
    LET raw_score  == DecisionFunction(d.model, m)
        prediction == Predict(d.model, m)
        normalized == NormalizeScore(raw_score)
        is_anomaly == (prediction = -1)
        typed      == IdentifyAnomalyType(d, m)
    IN [is_anomaly |-> is_anomaly,
        score |-> raw_score,
        normalized_score |-> normalized,
        anomaly_type |-> typed.type,
        severity |-> DetermineSeverity(normalized),
        confidence |-> CalculateConfidence(raw_score, typed.score),
        features |-> m,
        explanation |-> BuildExplanation(d, m, is_anomaly, typed.type)]

\* detect(metrics) on a trained detector
DetectResult(d, m) ==
    LET raw_score  == DecisionFunction(d.model, m)
        prediction == Predict(d.model, m)
        normalized == NormalizeScore(raw_score)
        is_anomaly == (prediction = -1)
        typed      == IdentifyAnomalyType(d, m)
    IN [is_anomaly |-> is_anomaly,
        score |-> raw_score,
        normalized_score |-> normalized,
        anomaly_type |-> IF is_anomaly THEN typed.type ELSE "None",
        severity |-> IF is_anomaly THEN DetermineSeverity(normalized)
                     ELSE "None",
        confidence |-> CalculateConfidence(raw_score, typed.score),
        features |-> m,
        explanation |-> BuildExplanation(d, m, is_anomaly, typed.type)]

NoResult == [is_anomaly |-> FALSE]

RECURSIVE DetectBatchReversed(_, _)
\* the results collected last sample first
DetectBatchReversed(d, metrics_list) ==
    IF metrics_list = <<>> THEN <<>>
    ELSE DetectBatchReversed(d, Tail(metrics_list))
            \o <<DetectResult(d, Head(metrics_list))>>

RECURSIVE DetectBatchResults(_, _)
\* [self.detect(m) for m in metrics_list] on a trained detector
DetectBatchResults(d, metrics_list) ==
    IF metrics_list = <<>> THEN <<>>
    ELSE <<DetectResult(d, Head(metrics_list))>>
            \o DetectBatchResults(d, Tail(metrics_list))

----------------------------------------------------------------------------
(* RealTimeAnomalyDetector *)

NewTracker(ws, pt) ==
    [window_size |-> ws,
     persistence_threshold |-> pt,
     window |-> <<>>,
     anomaly_streak |-> 0,
     last_results |-> <<>>]

\* Slide, evicting the newest entry instead of the oldest
SlideDropsNewest(list, x, size) ==
    LET grown == Append(list, x)
    IN IF Len(grown) > size THEN SubSeq(grown, 1, size) ELSE grown

\* list.append followed by pop(0) when the list outgrew the window
Slide(list, x, size) ==
    LET grown == Append(list, x)
    IN IF Len(grown) > size THEN Tail(grown) ELSE grown

\* NextStreak without the reset on a normal result
NextStreakNeverResets(streak, result) ==
    IF result.is_anomaly THEN streak + 1 ELSE streak

NextStreak(streak, result) ==
    IF result.is_anomaly THEN streak + 1 ELSE 0

\* Confirm, one interval late
ConfirmLate(result, streak, pt) ==
    IF streak > pt
    THEN [result EXCEPT
            !.confidence = Min((result.confidence * 6) \div 5, CONFIDENCE_ONE),
            !.explanation = [result.explanation EXCEPT
                               !.confirmed = TRUE, !.intervals = streak]]
    ELSE result

Confirm(result, streak, pt) ==
    IF streak >= pt
    THEN [result EXCEPT
            !.confidence = Min((result.confidence * 6) \div 5, CONFIDENCE_ONE),
            !.explanation = [result.explanation EXCEPT
                               !.confirmed = TRUE, !.intervals = streak]]
    ELSE result

\* ResetTracker forgetting the streak
ResetKeepsStreak(t) ==
    [t EXCEPT !.window = <<>>, !.last_results = <<>>]

ResetTracker(t) ==
    [t EXCEPT !.window = <<>>, !.anomaly_streak = 0, !.last_results = <<>>]

\* the tracker after process(m) returned on a trained detector
Processed(d, t, m) ==
    LET detected == DetectResult(d, m)
        streak == NextStreak(t.anomaly_streak, detected)
        result == Confirm(detected, streak, t.persistence_threshold)
    IN [t EXCEPT
          !.window = Slide(t.window, m, t.window_size),
          !.anomaly_streak = streak,
          !.last_results = Slide(t.last_results, result, t.window_size)]

RECURSIVE TrackerAfter(_, _, _)
\* the tracker after process returned for each sample of a series in turn
TrackerAfter(d, t, series) ==
    IF series = <<>> THEN t
    ELSE TrackerAfter(d, Processed(d, t, Head(series)), Tail(series))

\* _calculate_trend(values): the least-squares slope is sxy / sxx and the
\* standard deviation sqrt(syy) / n, so that slope / std > 0.5 reads
\* 4 n^2 sxy^2 > sxx^2 syy for a positive sxy
CalculateTrend(values) ==
    LET n == Len(values)
        idx == 1..n
        sx == SumFn([i \in idx |-> i - 1], idx)
        sy == SumFn([i \in idx |-> values[i]], idx)
        sxx == n * SumFn([i \in idx |-> (i - 1) * (i - 1)], idx) - sx * sx
        syy == n * SumFn([i \in idx |-> values[i] * values[i]], idx) - sy * sy
        sxy == n * SumFn([i \in idx |-> (i - 1) * values[i]], idx) - sx * sy
        steep == RatGreater(4 * sxy * sxy, sxx * sxx, syy, n * n)
    IN IF n < 2 THEN "stable"
       ELSE IF syy = 0 THEN "stable"
       ELSE IF sxy > 0 /\ steep THEN "increasing"
       ELSE IF sxy < 0 /\ steep THEN "decreasing"
       ELSE "stable"

\* the values of one feature over the window
FeatureValues(t, f) == [i \in 1..Len(t.window) |-> t.window[i][f]]

\* get_trend(); recent_anomaly_rate as <<anomalous results, results>>
TrendOf(t) ==
    IF Len(t.window) < 2 THEN [trend |-> "insufficient_data"]
    ELSE [window_size |-> Len(t.window),
          anomaly_streak |-> t.anomaly_streak,
          rps_trend |-> CalculateTrend(FeatureValues(t, "requests_per_second")),
          latency_trend |-> CalculateTrend(FeatureValues(t, "avg_latency_ms")),
          error_trend |-> CalculateTrend(FeatureValues(t, "error_rate")),
          recent_anomaly_rate |->
              <<Cardinality({i \in 1..Len(t.last_results) :
                               t.last_results[i].is_anomaly}),
                Len(t.last_results)>>]

----------------------------------------------------------------------------
(* RateLimitOptimizer.  Rates are whole requests per minute,               *)
(* headroom_percent and error_rate are in percent, time_of_day_variance    *)
(* and burst_multiplier in tenths, confidence in units of 1/100000.  The   *)
(* fields of a stored profile are finite numbers, as                       *)
(* _build_endpoint_profile stores them.                                    *)

OPTIMIZER_CONFIDENCE_ONE == 100000
DEFAULT_CONFIDENCE == 30000

Strategies == {"conservative", "balanced", "permissive", "adaptive"}
TierLevels == {"free", "basic", "standard", "premium", "enterprise"}

TierConfiguration(tier, base, burst, max, min) ==
    [tier |-> tier, base_limit |-> base, burst_multiplier |-> burst,
     max_limit |-> max, min_limit |-> min]

DEFAULT_TIER_CONFIGS ==
    [t \in TierLevels |->
        CASE t = "free"       -> TierConfiguration(t, 60, 12, 100, 10)
          [] t = "basic"      -> TierConfiguration(t, 100, 15, 300, 30)
          [] t = "standard"   -> TierConfiguration(t, 300, 15, 1000, 100)
          [] t = "premium"    -> TierConfiguration(t, 1000, 20, 5000, 300)
          [] t = "enterprise" -> TierConfiguration(t, 5000, 25, 50000, 1000)]

\* tier_configs passed to the constructor: a generous free tier
TRIAL_TIER_CONFIGS ==
    [DEFAULT_TIER_CONFIGS EXCEPT
        !["free"] = TierConfiguration("free", 500, 15, 1000, 10)]

\* get_burst_size: int(base_limit * burst_multiplier)
GetBurstSize(config) == (config.base_limit * config.burst_multiplier) \div 10

\* round(num / den), ties to the even integer
RoundHalfEven(num, den) ==
    LET q == num \div den
        r == num % den
    IN IF 2 * r < den THEN q
       ELSE IF 2 * r > den THEN q + 1
       ELSE IF q % 2 = 0 THEN q ELSE q + 1

\* _round_to_nice_number with the steps of 5 kept up to 54
RoundToNiceNumberLateTens(num, den) ==
    IF num < 10 * den THEN Max(1, RoundHalfEven(num, den))
    ELSE IF num < 54 * den THEN RoundHalfEven(num, 5 * den) * 5
    ELSE IF num < 100 * den THEN RoundHalfEven(num, 10 * den) * 10
    ELSE IF num < 500 * den THEN RoundHalfEven(num, 25 * den) * 25
    ELSE IF num < 1000 * den THEN RoundHalfEven(num, 50 * den) * 50
    ELSE IF num < 5000 * den THEN RoundHalfEven(num, 100 * den) * 100
    ELSE RoundHalfEven(num, 500 * den) * 500

\* _round_to_nice_number(num / den)
RoundToNiceNumber(num, den) ==
    IF num < 10 * den THEN Max(1, RoundHalfEven(num, den))
    ELSE IF num < 50 * den THEN RoundHalfEven(num, 5 * den) * 5
    ELSE IF num < 100 * den THEN RoundHalfEven(num, 10 * den) * 10
    ELSE IF num < 500 * den THEN RoundHalfEven(num, 25 * den) * 25
    ELSE IF num < 1000 * den THEN RoundHalfEven(num, 50 * den) * 50
    ELSE IF num < 5000 * den THEN RoundHalfEven(num, 100 * den) * 100
    ELSE RoundHalfEven(num, 500 * den) * 500

\* int(x * 0.7) in double precision: 0.7 is stored just below 7/10, and the
\* product of a multiple of 10 falls below the integer 7x/10 when x and the
\* product lie in different binades
TimesSevenTenths(x) ==
    IF /\ x % 10 = 0
       /\ \E j \in 0..14 : 10 * 2^j < x /\ 7 * x < 10 * 2^(j + 3)
    THEN (7 * x) \div 10 - 1
    ELSE (7 * x) \div 10

\* the multipliers of conservative and permissive exchanged
TimesStrategySwapped(x, strategy) ==
    CASE strategy = "conservative" -> (13 * x) \div 10
      [] strategy = "permissive"   -> TimesSevenTenths(x)
      [] OTHER                     -> x

\* int(x * STRATEGY_MULTIPLIERS[strategy])
TimesStrategy(x, strategy) ==
    CASE strategy = "conservative" -> TimesSevenTenths(x)
      [] strategy = "permissive"   -> (13 * x) \div 10
      [] OTHER                     -> x

\* the aggregates pandas computes for the rows of one endpoint
GroupQuiet ==
    [minute_mean |-> 2, minute_max |-> 5, minute_p95 |-> 4,
     hourly_mean |-> 100, hourly_std |-> 20, latency_mean |-> 50,
     error_count |-> 0, rows |-> 400, users |-> 5, method |-> "GET"]
GroupSteady ==
    [minute_mean |-> 40, minute_max |-> 80, minute_p95 |-> 62,
     hourly_mean |-> 2400, hourly_std |-> 480, latency_mean |-> 80,
     error_count |-> 720, rows |-> 12000, users |-> 40, method |-> "GET"]
GroupBursty ==
    [minute_mean |-> 300, minute_max |-> 1200, minute_p95 |-> 750,
     hourly_mean |-> 18000, hourly_std |-> 16200, latency_mean |-> 250,
     error_count |-> 8100, rows |-> 54000, users |-> 900, method |-> "POST"]
GroupHeavy ==
    [minute_mean |-> 2000, minute_max |-> 3600, minute_p95 |-> 3300,
     hourly_mean |-> 60000, hourly_std |-> 0, latency_mean |-> 100,
     error_count |-> 6000, rows |-> 60000, users |-> 3, method |-> "GET"]
\* a request every hour or so on average, half of them failing: most minutes
\* hold no request
GroupSparse ==
    [minute_mean |-> 0, minute_max |-> 1, minute_p95 |-> 0,
     hourly_mean |-> 1, hourly_std |-> 2, latency_mean |-> 900,
     error_count |-> 10, rows |-> 20, users |-> 2, method |-> "GET"]

Groups == {GroupQuiet, GroupSteady, GroupBursty, GroupHeavy, GroupSparse}

ENDPOINTS == <<"/api/orders", "/api/users">>
Endpoints == {ENDPOINTS[i] : i \in 1..Len(ENDPOINTS)}
UNPROFILED == "/api/unknown"

\* every endpoint a batch can hold, in the order groupby yields them
MORE_ENDPOINTS == <<"/health">>
KNOWN_ENDPOINTS == ENDPOINTS \o MORE_ENDPOINTS

\* a batch of request records, by endpoint; the second endpoint is a quiet
\* or a bursty one
Batches ==
    {b \in UNION {[S -> Groups] : S \in SUBSET Endpoints} :
        ENDPOINTS[2] \in DOMAIN b => b[ENDPOINTS[2]] \in {GroupQuiet, GroupBursty}}

BuildEndpointProfile(endpoint, g) ==
    [endpoint |-> endpoint,
     method |-> g.method,
     avg_requests_per_minute |-> g.minute_mean,
     peak_requests_per_minute |-> g.minute_max,
     p95_requests_per_minute |-> g.minute_p95,
     avg_latency_ms |-> g.latency_mean,
     error_rate |-> IF g.rows > 0 THEN (100 * g.error_count) \div g.rows ELSE 0,
     unique_users |-> g.users,
     total_requests |-> g.rows,
     typical_burst_size |-> Max(1, (g.minute_max * 3) \div 60),
     time_of_day_variance |-> IF g.hourly_mean > 0
                              THEN (10 * g.hourly_std) \div g.hourly_mean
                              ELSE 0]

NoProfiles == [e \in {} |-> 0]

NewOptimizer(strategy, headroom, configs) ==
    [strategy |-> strategy,
     headroom_percent |-> headroom,
     tier_configs |-> configs,
     endpoint_clusterer |-> <<>>,
     scaler |-> [fitted |-> FALSE],
     endpoint_profiles |-> NoProfiles,
     is_trained |-> FALSE,
     training_timestamp |-> 0]

\* the base limit without the minimum viable limit of 10
CalculateBaseLimitNoFloor(o, profile) ==
    RoundToNiceNumber(
        profile.p95_requests_per_minute * (100 + o.headroom_percent), 100)

CalculateBaseLimit(o, profile) ==
    LET num == profile.p95_requests_per_minute * (100 + o.headroom_percent)
    IN RoundToNiceNumber(Max(num, 10 * 100), 100)

CalculateBurstSize(profile, rate_limit) ==
    LET typical_burst == profile.typical_burst_size
        min_burst == Max(10, rate_limit \div 6)
        max_burst == rate_limit
        burst == Max(min_burst, Min(typical_burst * 2, max_burst))
    IN RoundToNiceNumber(burst, 1)

\* the multipliers of basic and standard exchanged
GetTierMultiplierSwapped(tier) ==
    CASE tier = "free"       -> <<1, 2>>
      [] tier = "basic"      -> <<3, 2>>
      [] tier = "default"    -> <<1, 1>>
      [] tier = "standard"   -> <<3, 4>>
      [] tier = "premium"    -> <<5, 2>>
      [] tier = "enterprise" -> <<5, 1>>
      [] OTHER               -> <<1, 1>>

\* the tier multiplier, as the fraction <<num, den>>
GetTierMultiplier(tier) ==
    CASE tier = "free"       -> <<1, 2>>
      [] tier = "basic"      -> <<3, 4>>
      [] tier = "default"    -> <<1, 1>>
      [] tier = "standard"   -> <<3, 2>>
      [] tier = "premium"    -> <<5, 2>>
      [] tier = "enterprise" -> <<5, 1>>
      [] OTHER               -> <<1, 1>>

\* the adaptive multiplier, as the fraction <<num, 50000>>
CalculateAdaptiveMultiplier(profile) ==
    LET variance_factor == Max(50, 100 - 3 * profile.time_of_day_variance)
        error_factor == Max(50, 100 - 2 * profile.error_rate)
        latency_factor == IF profile.avg_latency_ms < 100 THEN 5 ELSE 4
    IN <<variance_factor * error_factor * latency_factor, 50000>>

CalculateOptimizerConfidence(profile) ==
    LET data_confidence == IF profile.total_requests > 0
                           THEN Min(10000, profile.total_requests) ELSE 0
        variance_confidence == Max(3, 10 - profile.time_of_day_variance)
    IN 6 * data_confidence + 4000 * variance_confidence

BuildReasoning(o, profile, strategy) ==
    [template |-> "historical",
     total_requests |-> profile.total_requests,
     avg_rpm |-> profile.avg_requests_per_minute,
     peak_rpm |-> profile.peak_requests_per_minute,
     strategy |-> strategy,
     headroom |-> o.headroom_percent,
     error_note |-> profile.error_rate > 5]

GenerateWarnings(profile, current_limit, recommended_limit) ==
    (IF /\ current_limit # <<>>
        /\ current_limit[1] # 0
        /\ 10 * recommended_limit < 7 * current_limit[1]
     THEN <<"significantly lower than current">> ELSE <<>>)
    \o (IF profile.error_rate > 10 THEN <<"high error rate">> ELSE <<>>)
    \o (IF profile.time_of_day_variance > 8
        THEN <<"high time-of-day variance">> ELSE <<>>)
    \o (IF profile.total_requests < 1000
        THEN <<"limited historical data">> ELSE <<>>)

\* the tier names kept and everything else, "default" too, sent to free
TierMappingToFree(tier) ==
    IF tier \in TierLevels THEN tier ELSE "free"

TierMapping(tier) ==
    IF tier \in TierLevels THEN tier ELSE "standard"

GenerateDefaultRecommendation(o, endpoint, tier, current_limit, strategy) ==
    LET config == o.tier_configs[TierMapping(tier)]
    IN [endpoint |-> endpoint,
        tier |-> tier,
        current_limit |-> current_limit,
        recommended_limit |-> TimesStrategy(config.base_limit, strategy),
        recommended_burst |-> GetBurstSize(config),
        confidence |-> DEFAULT_CONFIDENCE,
        reasoning |-> [template |-> "no historical data", tier |-> tier],
        strategy |-> strategy,
        warnings |-> <<"no traffic data available">>,
        profile |-> <<>>]

\* recommend(endpoint, tier, current_limit, strategy); current_limit is <<>>
\* for None, the strategy argument "None" for None
Recommendation(o, endpoint, tier, current_limit, strategy_arg) ==
    LET strategy == IF strategy_arg = "None" THEN o.strategy ELSE strategy_arg
    IN IF endpoint \notin DOMAIN o.endpoint_profiles
       THEN GenerateDefaultRecommendation(o, endpoint, tier, current_limit,
                                          strategy)
       ELSE LET profile == o.endpoint_profiles[endpoint]
                base_limit == CalculateBaseLimit(o, profile)
                tm == GetTierMultiplier(tier)
                tier_adjusted_limit == (base_limit * tm[1]) \div tm[2]
                am == CalculateAdaptiveMultiplier(profile)
                recommended_limit ==
                    IF strategy = "adaptive"
                    THEN (tier_adjusted_limit * am[1]) \div am[2]
                    ELSE TimesStrategy(tier_adjusted_limit, strategy)
            IN [endpoint |-> endpoint,
                tier |-> tier,
                current_limit |-> current_limit,
                recommended_limit |-> recommended_limit,
                recommended_burst |->
                    CalculateBurstSize(profile, recommended_limit),
                confidence |-> CalculateOptimizerConfidence(profile),
                reasoning |-> BuildReasoning(o, profile, strategy),
                strategy |-> strategy,
                warnings |-> GenerateWarnings(profile, current_limit,
                                              recommended_limit),
                profile |-> <<profile>>]

\* the keys of endpoint_profiles in the order analyze_traffic inserted them
ProfiledEndpoints(o) ==
    SelectSeq(KNOWN_ENDPOINTS, LAMBDA e : e \in DOMAIN o.endpoint_profiles)

RecommendationsForAll(o, tier, strategy_arg) ==
    LET keys == ProfiledEndpoints(o)
    IN [i \in 1..Len(keys) |->
          Recommendation(o, keys[i], tier, <<>>, strategy_arg)]

\* n_clusters after the edge case: never more clusters than endpoints
ClusterCount(o, n_clusters) ==
    LET len == Len(ProfiledEndpoints(o))
    IN IF len < n_clusters THEN Max(1, len) ELSE n_clusters

\* the labels KMeans.fit_predict can give the endpoints, by position
Labellings(o, n) == [1..Len(ProfiledEndpoints(o)) -> 0..(n - 1)]

\* clusters["cluster_<label>"]: the endpoints with that label, in order
ClusterMembers(endpoints, labels, label) ==
    LET Pos(e) == CHOOSE k \in 1..Len(endpoints) : endpoints[k] = e
    IN SelectSeq(endpoints, LAMBDA e : labels[Pos(e)] = label)

\* the heuristic name of a non-empty cluster, from the means of
\* avg_requests_per_minute and avg_latency_ms over its endpoints
ClusterBaseName(o, members) ==
    LET n == Len(members)
        rpm == SumFn([i \in 1..n |->
                  o.endpoint_profiles[members[i]].avg_requests_per_minute],
                  1..n)
        latency == SumFn([i \in 1..n |->
                      o.endpoint_profiles[members[i]].avg_latency_ms], 1..n)
    IN IF rpm > 100 * n
       THEN IF latency > 200 * n THEN "high_traffic_slow"
            ELSE "high_traffic_fast"
       ELSE IF rpm > 10 * n THEN "medium_traffic"
       ELSE IF latency > 500 * n THEN "low_traffic_slow"
       ELSE "low_traffic"

\* a cluster name: base for counter 0, base_<counter> otherwise
ClusterNameTaken(named, name) ==
    \E j \in 1..Len(named) : named[j].name = name

\* the heuristic name used whether or not it is taken
UniqueNameUnchecked(named, base_name) ==
    [base |-> base_name, counter |-> 0]

\* the while loop that ensures unique names
UniqueName(named, base_name) ==
    IF ~ClusterNameTaken(named, [base |-> base_name, counter |-> 0])
    THEN [base |-> base_name, counter |-> 0]
    ELSE LET free == {k \in 1..(Len(named) + 1) :
                        ~ClusterNameTaken(named,
                            [base |-> base_name, counter |-> k])}
         IN [base |-> base_name, counter |-> SetMin(free)]

\* named[name] = endpoints on a dictionary kept in insertion order
PutCluster(named, name, members) ==
    IF ClusterNameTaken(named, name)
    THEN [j \in 1..Len(named) |->
            IF named[j].name = name
            THEN [name |-> name, endpoints |-> members] ELSE named[j]]
    ELSE Append(named, [name |-> name, endpoints |-> members])

\* _name_clusters, from cluster number i on
RECURSIVE NameClusters(_, _, _, _)
NameClusters(o, clusters, i, named) ==
    IF i > Len(clusters) THEN named
    ELSE IF clusters[i] = <<>> THEN NameClusters(o, clusters, i + 1, named)
    ELSE LET name == UniqueName(named, ClusterBaseName(o, clusters[i]))
         IN NameClusters(o, clusters, i + 1,
                         PutCluster(named, name, clusters[i]))

\* the dictionary cluster_endpoints returns, as its items in order
NamedClusters(o, n_clusters, labels) ==
    LET endpoints == ProfiledEndpoints(o)
        n == ClusterCount(o, n_clusters)
        clusters == [i \in 1..n |-> ClusterMembers(endpoints, labels, i - 1)]
    IN IF endpoints = <<>> THEN <<>>
       ELSE NameClusters(o, clusters, 1, <<>>)

\* EndpointProfile.to_dict
ProfileToDict(profile) ==
    [endpoint |-> profile.endpoint,
     method |-> profile.method,
     avg_requests_per_minute |-> profile.avg_requests_per_minute,
     peak_requests_per_minute |-> profile.peak_requests_per_minute,
     p95_requests_per_minute |-> profile.p95_requests_per_minute,
     avg_latency_ms |-> profile.avg_latency_ms,
     error_rate |-> profile.error_rate,
     unique_users |-> profile.unique_users,
     total_requests |-> profile.total_requests,
     typical_burst_size |-> profile.typical_burst_size,
     time_of_day_variance |-> profile.time_of_day_variance]

\* the state dictionary save writes
OptimizerState(o) ==
    [strategy |-> o.strategy,
     headroom_percent |-> o.headroom_percent,
     endpoint_profiles |->
         [e \in DOMAIN o.endpoint_profiles |->
             ProfileToDict(o.endpoint_profiles[e])],
     training_timestamp |-> o.training_timestamp,
     is_trained |-> o.is_trained]

\* the EndpointProfile load builds from a stored dictionary
ProfileFromDict(profile_dict) ==
    [endpoint |-> profile_dict.endpoint,
     method |-> profile_dict.method,
     avg_requests_per_minute |-> profile_dict.avg_requests_per_minute,
     peak_requests_per_minute |-> profile_dict.peak_requests_per_minute,
     p95_requests_per_minute |-> profile_dict.p95_requests_per_minute,
     avg_latency_ms |-> profile_dict.avg_latency_ms,
     error_rate |-> profile_dict.error_rate,
     unique_users |-> profile_dict.unique_users,
     total_requests |-> profile_dict.total_requests,
     typical_burst_size |-> profile_dict.typical_burst_size,
     time_of_day_variance |-> profile_dict.time_of_day_variance]

\* the files in the directory after save: the state always; the clusterer
\* and the scaler when the optimizer has a clusterer, else whatever an
\* earlier save left there (directory is <<>> when there is none yet)
OptimizerFiles(o, directory) ==
    LET fresh == o.endpoint_clusterer # <<>>
        old == directory # <<>>
    IN [optimizer_state |-> OptimizerState(o),
        clusterer |-> IF fresh THEN o.endpoint_clusterer
                      ELSE IF old THEN directory[1].clusterer ELSE <<>>,
        scaler |-> IF fresh THEN <<o.scaler>>
                   ELSE IF old THEN directory[1].scaler ELSE <<>>]

\* the instance load builds: the constructor is called with the stored
\* strategy and headroom_percent only
LoadedOptimizer(files) ==
    LET state == files.optimizer_state
        base == NewOptimizer(state.strategy, state.headroom_percent,
                             DEFAULT_TIER_CONFIGS)
    IN [base EXCEPT
          !.endpoint_profiles =
              [e \in DOMAIN state.endpoint_profiles |->
                  ProfileFromDict(state.endpoint_profiles[e])],
          !.training_timestamp = state.training_timestamp,
          !.is_trained = state.is_trained,
          !.endpoint_clusterer = files.clusterer,
          !.scaler = IF files.clusterer # <<>> THEN files.scaler[1]
                     ELSE base.scaler]

----------------------------------------------------------------------------
(* Operations *)

NoOutcome == [op |-> "none", ok |-> TRUE]

\* no directory written yet; a directory that exists is a one-element sequence
EmptyDisk == [detector |-> <<>>, optimizer |-> <<>>]

\* the request threads of the server that may be inside process at once
Threads == {1, 2}

\* a thread outside process: no call made yet
IdleThread ==
    [pc |-> "idle", metrics |-> <<>>, result |-> NoResult, streak |-> 0,
     overlapped |-> FALSE]

NoThreads == [t \in Threads |-> IdleThread]

\* the module globals before any model is installed
NoServer ==
    [anomaly_detector |-> <<>>, realtime_detector |-> <<>>,
     rate_optimizer |-> <<>>, instances |-> 0]

\* Train, re-creating the model and the training state before it validates
TrainClearsFirst(data, fit) ==
    /\ IF TrainFails(data)
       THEN /\ detector' = NewDetector(detector.contamination,
                                       detector.threshold_multiplier)
            /\ clock' = clock
            /\ outcome' = [op |-> "train", ok |-> FALSE, arg |-> data,
                           error |-> "Insufficient training data"]
       ELSE /\ clock < MaxClock
            /\ clock' = clock + 1
            /\ detector' = Trained(detector, data, fit, clock + 1)
            /\ outcome' = [op |-> "train", ok |-> TRUE, arg |-> data,
                           error |-> ""]
    /\ UNCHANGED <<tracker, optimizer, calls, disk, saved>>
    /\ UNCHANGED <<threads, server>>

\* Train, computing the baselines before it validates
TrainBaselinesFirst(data, fit) ==
    /\ IF TrainFails(data)
       THEN /\ detector' = [detector EXCEPT
                                !.baselines = ComputeBaselines(data.rows)]
            /\ clock' = clock
            /\ outcome' = [op |-> "train", ok |-> FALSE, arg |-> data,
                           error |-> "Insufficient training data"]
       ELSE /\ clock < MaxClock
            /\ clock' = clock + 1
            /\ detector' = Trained(detector, data, fit, clock + 1)
            /\ outcome' = [op |-> "train", ok |-> TRUE, arg |-> data,
                           error |-> ""]
    /\ UNCHANGED <<tracker, optimizer, calls, disk, saved>>
    /\ UNCHANGED <<threads, server>>

\* AnomalyDetector.train(data); the library fit yields `fit`
Train(data, fit) ==
    /\ IF TrainFails(data)
       THEN /\ detector' = detector
            /\ clock' = clock
            /\ outcome' = [op |-> "train", ok |-> FALSE, arg |-> data,
                           error |-> "Insufficient training data"]
       ELSE /\ clock < MaxClock
            /\ clock' = clock + 1
            /\ detector' = Trained(detector, data, fit, clock + 1)
            /\ outcome' = [op |-> "train", ok |-> TRUE, arg |-> data,
                           error |-> ""]
    /\ UNCHANGED <<tracker, optimizer, calls, disk, saved>>
    /\ UNCHANGED <<threads, server>>

\* AnomalyDetector.detect(metrics)
Detect(m) ==
    /\ outcome' = IF ~detector.is_trained
                  THEN [op |-> "detect", ok |-> FALSE, arg |-> m,
                        error |-> "Model must be trained", result |-> NoResult]
                  ELSE [op |-> "detect", ok |-> TRUE, arg |-> m,
                        error |-> "", result |-> DetectResult(detector, m)]
    /\ UNCHANGED <<detector, tracker, optimizer, clock, calls, disk, saved>>
    /\ UNCHANGED <<threads, server>>

\* AnomalyDetector._identify_anomaly_type(metrics)
IdentifyType(m) ==
    /\ outcome' = [op |-> "identify_anomaly_type", ok |-> TRUE, arg |-> m,
                   error |-> "", result |-> IdentifyAnomalyType(detector, m)]
    /\ UNCHANGED <<detector, tracker, optimizer, clock, calls, disk, saved>>
    /\ UNCHANGED <<threads, server>>

\* AnomalyDetector.detect_batch(metrics_list): the first detect call raises
\* when the detector is untrained, and an empty list makes no call
DetectBatch(metrics_list) ==
    /\ outcome' = IF ~detector.is_trained /\ metrics_list # <<>>
                  THEN [op |-> "detect_batch", ok |-> FALSE,
                        arg |-> metrics_list,
                        error |-> "Model must be trained", result |-> <<>>]
                  ELSE [op |-> "detect_batch", ok |-> TRUE,
                        arg |-> metrics_list, error |-> "",
                        result |-> DetectBatchResults(detector, metrics_list)]
    /\ UNCHANGED <<detector, tracker, optimizer, clock, calls, disk, saved>>
    /\ UNCHANGED <<threads, server>>

\* AnomalyDetector.save(path)
SaveDetector ==
    /\ IF ~detector.is_trained
       THEN /\ outcome' = [op |-> "save_detector", ok |-> FALSE,
                           error |-> "Cannot save untrained model"]
            /\ UNCHANGED <<disk, saved>>
       ELSE /\ disk' = [disk EXCEPT !.detector = <<DetectorFiles(detector)>>]
            /\ saved' = [saved EXCEPT !.detector = <<detector>>]
            /\ outcome' = [op |-> "save_detector", ok |-> TRUE, error |-> ""]
    /\ UNCHANGED <<detector, tracker, optimizer, clock, calls>>
    /\ UNCHANGED <<threads, server>>

\* AnomalyDetector.load(path); the loaded instance takes the place of the
\* one in use
LoadDetector ==
    /\ IF disk.detector = <<>>
       THEN /\ outcome' = [op |-> "load_detector", ok |-> FALSE,
                           error |-> "FileNotFoundError",
                           previous |-> detector]
            /\ UNCHANGED detector
       ELSE /\ detector' = LoadedDetector(disk.detector[1])
            /\ outcome' = [op |-> "load_detector", ok |-> TRUE, error |-> "",
                           previous |-> detector]
    /\ UNCHANGED <<tracker, optimizer, clock, calls, disk, saved>>
    /\ UNCHANGED <<threads, server>>

\* process testing the streak for persistence before it is updated
ProcessTestsOldStreak(m) ==
    /\ Len(calls) < MaxCalls
    /\ LET window == Slide(tracker.window, m, tracker.window_size)
       IN IF ~detector.is_trained
          THEN /\ tracker' = [tracker EXCEPT !.window = window]
               /\ calls' = Append(calls, [metrics |-> m, ok |-> FALSE,
                                          result |-> NoResult])
               /\ outcome' = [op |-> "process", ok |-> FALSE, arg |-> m,
                              error |-> "Model must be trained",
                              result |-> NoResult]
          ELSE LET detected == DetectResult(detector, m)
                   streak == NextStreak(tracker.anomaly_streak, detected)
                   result == Confirm(detected, tracker.anomaly_streak + 1,
                                     tracker.persistence_threshold)
               IN /\ tracker' = [tracker EXCEPT
                        !.window = window,
                        !.anomaly_streak = streak,
                        !.last_results = Slide(tracker.last_results, result,
                                               tracker.window_size)]
                  /\ calls' = Append(calls, [metrics |-> m, ok |-> TRUE,
                                             result |-> result])
                  /\ outcome' = [op |-> "process", ok |-> TRUE, arg |-> m,
                                 error |-> "", result |-> result]
    /\ UNCHANGED <<detector, optimizer, clock, disk, saved>>
    /\ UNCHANGED <<threads, server>>

\* RealTimeAnomalyDetector.process(metrics)
Process(m) ==
    /\ Len(calls) < MaxCalls
    /\ LET window == Slide(tracker.window, m, tracker.window_size)
       IN IF ~detector.is_trained
          THEN /\ tracker' = [tracker EXCEPT !.window = window]
               /\ calls' = Append(calls, [metrics |-> m, ok |-> FALSE,
                                          result |-> NoResult])
               /\ outcome' = [op |-> "process", ok |-> FALSE, arg |-> m,
                              error |-> "Model must be trained",
                              result |-> NoResult]
          ELSE LET detected == DetectResult(detector, m)
                   streak == NextStreak(tracker.anomaly_streak, detected)
                   result == Confirm(detected, streak,
                                     tracker.persistence_threshold)
               IN /\ tracker' = [tracker EXCEPT
                        !.window = window,
                        !.anomaly_streak = streak,
                        !.last_results = Slide(tracker.last_results, result,
                                               tracker.window_size)]
                  /\ calls' = Append(calls, [metrics |-> m, ok |-> TRUE,
                                             result |-> result])
                  /\ outcome' = [op |-> "process", ok |-> TRUE, arg |-> m,
                                 error |-> "", result |-> result]
    /\ UNCHANGED <<detector, optimizer, clock, disk, saved>>
    /\ UNCHANGED <<threads, server>>

----------------------------------------------------------------------------
(* RealTimeAnomalyDetector.process, statement by statement, for calls made *)
(* by several threads on one tracker.  A thread's record holds its         *)
(* position, its argument and its locals; `overlapped` is history: whether *)
(* the call ran while another call was in flight.                          *)

InFlight(t) == threads[t].pc \notin {"idle", "done", "raised"}

ThreadFrame ==
    UNCHANGED <<detector, optimizer, clock, disk, calls, saved, outcome,
                server>>

\* thread t enters process(m)
CallProcess(t, m) ==
    /\ threads[t].pc = "idle"
    /\ LET busy == \E u \in Threads \ {t} : InFlight(u)
       IN threads' =
             [u \in Threads |->
                IF u = t
                THEN [threads[t] EXCEPT !.pc = "append_window",
                                       !.metrics = <<m>>,
                                       !.overlapped = busy]
                ELSE [threads[u] EXCEPT
                        !.overlapped = @ \/ (busy /\ InFlight(u))]]
    /\ UNCHANGED tracker
    /\ ThreadFrame

\* self.window.append(metrics)
AppendWindow(t) ==
    /\ threads[t].pc = "append_window"
    /\ tracker' = [tracker EXCEPT
                     !.window = Append(@, threads[t].metrics[1])]
    /\ threads' = [threads EXCEPT ![t].pc = "check_window"]
    /\ ThreadFrame

\* if len(self.window) > self.window_size:
CheckWindow(t) ==
    /\ threads[t].pc = "check_window"
    /\ threads' = [threads EXCEPT
                     ![t].pc = IF Len(tracker.window) > tracker.window_size
                               THEN "pop_window" ELSE "detect"]
    /\ UNCHANGED tracker
    /\ ThreadFrame

\* self.window.pop(0); on an empty list pop raises IndexError
PopWindow(t) ==
    /\ threads[t].pc = "pop_window"
    /\ IF tracker.window = <<>>
       THEN /\ threads' = [threads EXCEPT ![t].pc = "raised"]
            /\ UNCHANGED tracker
       ELSE /\ tracker' = [tracker EXCEPT !.window = Tail(@)]
            /\ threads' = [threads EXCEPT ![t].pc = "detect"]
    /\ ThreadFrame

\* result = self.detector.detect(metrics)
RunDetect(t) ==
    /\ threads[t].pc = "detect"
    /\ IF ~detector.is_trained
       THEN threads' = [threads EXCEPT ![t].pc = "raised"]
       ELSE LET result == DetectResult(detector, threads[t].metrics[1])
            IN threads' = [threads EXCEPT
                             ![t].result = result,
                             ![t].pc = IF result.is_anomaly
                                       THEN "read_streak" ELSE "zero_streak"]
    /\ UNCHANGED tracker
    /\ ThreadFrame

\* self.anomaly_streak += 1: the attribute is loaded ...
ReadStreak(t) ==
    /\ threads[t].pc = "read_streak"
    /\ threads' = [threads EXCEPT ![t].streak = tracker.anomaly_streak,
                                  ![t].pc = "write_streak"]
    /\ UNCHANGED tracker
    /\ ThreadFrame

\* the streak stored without the increment
WriteStreakUnchanged(t) ==
    /\ threads[t].pc = "write_streak"
    /\ tracker' = [tracker EXCEPT !.anomaly_streak = threads[t].streak]
    /\ threads' = [threads EXCEPT ![t].pc = "check_persistence"]
    /\ ThreadFrame

\* ... and stored, one larger
WriteStreak(t) ==
    /\ threads[t].pc = "write_streak"
    /\ tracker' = [tracker EXCEPT !.anomaly_streak = threads[t].streak + 1]
    /\ threads' = [threads EXCEPT ![t].pc = "check_persistence"]
    /\ ThreadFrame

\* self.anomaly_streak = 0
ZeroStreak(t) ==
    /\ threads[t].pc = "zero_streak"
    /\ tracker' = [tracker EXCEPT !.anomaly_streak = 0]
    /\ threads' = [threads EXCEPT ![t].pc = "check_persistence"]
    /\ ThreadFrame

\* if self.anomaly_streak >= self.persistence_threshold:
CheckPersistence(t) ==
    /\ threads[t].pc = "check_persistence"
    /\ threads' = [threads EXCEPT
                     ![t].pc = IF tracker.anomaly_streak
                                    >= tracker.persistence_threshold
                               THEN "boost" ELSE "append_result"]
    /\ UNCHANGED tracker
    /\ ThreadFrame

\* result.confidence = min(result.confidence * 1.2, 1.0)
BoostConfidence(t) ==
    /\ threads[t].pc = "boost"
    /\ threads' = [threads EXCEPT
                     ![t].result.confidence =
                         Min((@ * 6) \div 5, CONFIDENCE_ONE),
                     ![t].pc = "mark_confirmed"]
    /\ UNCHANGED tracker
    /\ ThreadFrame

\* result.explanation = f"CONFIRMED: ... {self.anomaly_streak} intervals)"
MarkConfirmed(t) ==
    /\ threads[t].pc = "mark_confirmed"
    /\ threads' = [threads EXCEPT
                     ![t].result.explanation =
                         [@ EXCEPT !.confirmed = TRUE,
                                   !.intervals = tracker.anomaly_streak],
                     ![t].pc = "append_result"]
    /\ UNCHANGED tracker
    /\ ThreadFrame

\* self.last_results.append(result)
AppendResult(t) ==
    /\ threads[t].pc = "append_result"
    /\ tracker' = [tracker EXCEPT
                     !.last_results = Append(@, threads[t].result)]
    /\ threads' = [threads EXCEPT ![t].pc = "check_results"]
    /\ ThreadFrame

\* if len(self.last_results) > self.window_size: ... else return result
CheckResults(t) ==
    /\ threads[t].pc = "check_results"
    /\ threads' = [threads EXCEPT
                     ![t].pc = IF Len(tracker.last_results)
                                    > tracker.window_size
                               THEN "pop_results" ELSE "done"]
    /\ UNCHANGED tracker
    /\ ThreadFrame

\* self.last_results.pop(0); return result
PopResults(t) ==
    /\ threads[t].pc = "pop_results"
    /\ IF tracker.last_results = <<>>
       THEN /\ threads' = [threads EXCEPT ![t].pc = "raised"]
            /\ UNCHANGED tracker
       ELSE /\ tracker' = [tracker EXCEPT !.last_results = Tail(@)]
            /\ threads' = [threads EXCEPT ![t].pc = "done"]
    /\ ThreadFrame

\* RealTimeAnomalyDetector.get_trend()
GetTrend ==
    /\ outcome' = [op |-> "get_trend", ok |-> TRUE,
                   result |-> TrendOf(tracker)]
    /\ UNCHANGED <<detector, tracker, optimizer, clock, calls, disk, saved>>
    /\ UNCHANGED <<threads, server>>

\* RealTimeAnomalyDetector.reset()
Reset ==
    /\ tracker' = ResetTracker(tracker)
    /\ calls' = <<>>
    /\ outcome' = [op |-> "reset", ok |-> TRUE,
                   dropped |-> Len(tracker.window),
                   streak |-> tracker.anomaly_streak]
    /\ UNCHANGED <<detector, optimizer, clock, disk, saved>>
    /\ UNCHANGED <<threads, server>>

\* analyze_traffic adding the new profiles to the ones it holds
AnalyzeTrafficUpdating(batch) ==
    /\ clock < MaxClock
    /\ clock' = clock + 1
    /\ optimizer' = [optimizer EXCEPT
          !.endpoint_profiles =
              [e \in DOMAIN batch |-> BuildEndpointProfile(e, batch[e])]
                  @@ optimizer.endpoint_profiles,
          !.is_trained = TRUE,
          !.training_timestamp = clock + 1]
    /\ outcome' = [op |-> "analyze_traffic", ok |-> TRUE, arg |-> batch,
                   previous |-> optimizer.endpoint_profiles]
    /\ UNCHANGED <<detector, tracker, calls, disk, saved>>
    /\ UNCHANGED <<threads, server>>

\* RateLimitOptimizer.analyze_traffic(data)
AnalyzeTraffic(batch) ==
    /\ clock < MaxClock
    /\ clock' = clock + 1
    /\ optimizer' = [optimizer EXCEPT
          !.endpoint_profiles =
              [e \in DOMAIN batch |-> BuildEndpointProfile(e, batch[e])],
          !.is_trained = TRUE,
          !.training_timestamp = clock + 1]
    /\ outcome' = [op |-> "analyze_traffic", ok |-> TRUE, arg |-> batch,
                   previous |-> optimizer.endpoint_profiles]
    /\ UNCHANGED <<detector, tracker, calls, disk, saved>>
    /\ UNCHANGED <<threads, server>>

\* recommend keeping the strategy override on the instance
RecommendStoresStrategy(endpoint, tier, current_limit, strategy_arg) ==
    /\ outcome' = [op |-> "recommend", ok |-> TRUE,
                   arg |-> <<endpoint, tier, current_limit, strategy_arg>>,
                   result |-> Recommendation(optimizer, endpoint, tier,
                                             current_limit, strategy_arg)]
    /\ optimizer' = [optimizer EXCEPT
          !.strategy = IF strategy_arg = "None" THEN @ ELSE strategy_arg]
    /\ UNCHANGED <<detector, tracker, clock, calls, disk, saved>>
    /\ UNCHANGED <<threads, server>>

\* RateLimitOptimizer.recommend(endpoint, tier, current_limit, strategy)
Recommend(endpoint, tier, current_limit, strategy_arg) ==
    /\ outcome' = [op |-> "recommend", ok |-> TRUE,
                   arg |-> <<endpoint, tier, current_limit, strategy_arg>>,
                   result |-> Recommendation(optimizer, endpoint, tier,
                                             current_limit, strategy_arg)]
    /\ UNCHANGED <<detector, tracker, optimizer, clock, calls, disk, saved>>
    /\ UNCHANGED <<threads, server>>

\* RateLimitOptimizer.recommend_all(tier, strategy)
RecommendAll(tier, strategy_arg) ==
    /\ outcome' = [op |-> "recommend_all", ok |-> TRUE,
                   arg |-> <<tier, strategy_arg>>,
                   result |-> RecommendationsForAll(optimizer, tier,
                                                    strategy_arg)]
    /\ UNCHANGED <<detector, tracker, optimizer, clock, calls, disk, saved>>
    /\ UNCHANGED <<threads, server>>

\* RateLimitOptimizer.cluster_endpoints(n_clusters); labels is what the
\* fitted KMeans assigns
ClusterEndpoints(n_clusters, labels) ==
    /\ outcome' = [op |-> "cluster_endpoints", ok |-> TRUE,
                   arg |-> <<n_clusters, labels>>,
                   result |-> NamedClusters(optimizer, n_clusters, labels)]
    /\ optimizer' =
          IF DOMAIN optimizer.endpoint_profiles = {} THEN optimizer
          ELSE [optimizer EXCEPT
                  !.scaler = [fitted |-> TRUE],
                  !.endpoint_clusterer =
                      <<[n_clusters |-> ClusterCount(optimizer, n_clusters),
                         labels_ |-> labels]>>]
    /\ UNCHANGED <<detector, tracker, clock, calls, disk, saved>>
    /\ UNCHANGED <<threads, server>>

\* RateLimitOptimizer.save(path)
SaveOptimizer ==
    /\ disk' = [disk EXCEPT
          !.optimizer = <<OptimizerFiles(optimizer, disk.optimizer)>>]
    /\ saved' = [saved EXCEPT !.optimizer = <<optimizer>>]
    /\ outcome' = [op |-> "save_optimizer", ok |-> TRUE, error |-> ""]
    /\ UNCHANGED <<detector, tracker, optimizer, clock, calls>>
    /\ UNCHANGED <<threads, server>>

\* RateLimitOptimizer.load(path); the loaded instance takes the place of the
\* one in use
LoadOptimizer ==
    /\ IF disk.optimizer = <<>>
       THEN /\ outcome' = [op |-> "load_optimizer", ok |-> FALSE,
                           error |-> "FileNotFoundError",
                           previous |-> optimizer]
            /\ UNCHANGED optimizer
       ELSE /\ optimizer' = LoadedOptimizer(disk.optimizer[1])
            /\ outcome' = [op |-> "load_optimizer", ok |-> TRUE,
                           error |-> "", previous |-> optimizer]
    /\ UNCHANGED <<detector, tracker, clock, calls, disk, saved>>
    /\ UNCHANGED <<threads, server>>

\* RateLimitOptimizer._round_to_nice_number(value), value = num / den
RoundToNice(value) ==
    /\ outcome' = [op |-> "round_to_nice", ok |-> TRUE, arg |-> value,
                   result |-> RoundToNiceNumber(value[1], value[2])]
    /\ UNCHANGED <<detector, tracker, optimizer, clock, calls, disk, saved>>
    /\ UNCHANGED <<threads, server>>

----------------------------------------------------------------------------
(* The API server: the module globals and the handlers that assign them.  *)
(* A global that is None is <<>>; an installed object is a one-element     *)
(* sequence.  Every AnomalyDetector the server constructs gets the next    *)
(* id, so that two references to one object are told from two equal        *)
(* objects.  One request reads the time once.                              *)

MODEL_NAMES == {"anomaly", "optimizer"}

\* the "models" lists of a /train or /model/load request
ModelSelections == SUBSET MODEL_NAMES

\* app.config["CONTAMINATION"], in percent
CONTAMINATION == 10

\* the window_size and persistence_threshold of RealTimeAnomalyDetector(d)
DEFAULT_WINDOW_SIZE == 60
DEFAULT_PERSISTENCE_THRESHOLD == 3

\* len(df) as the handler sees it, rows holding infinite values included
TotalRows(data) == UsableRows(data) + data.inf_rows

\* len(df) of the per-request records load_endpoint_data returns
BatchRows(batch) == SumFn([e \in DOMAIN batch |-> batch[e].rows], DOMAIN batch)

\* the optimizer after analyze_traffic(batch) at time now
Analyzed(o, batch, now) ==
    [o EXCEPT
       !.endpoint_profiles =
           [e \in DOMAIN batch |-> BuildEndpointProfile(e, batch[e])],
       !.is_trained = TRUE,
       !.training_timestamp = now]

\* require_trained_model lets the request through
ModelTrained(srv) ==
    srv.anomaly_detector # <<>> /\ srv.anomaly_detector[1].obj.is_trained

\* the frame of a request: the library objects of the other sections are
\* not touched
ServerFrame == UNCHANGED <<detector, tracker, optimizer, calls, saved, threads>>

\* POST /train
ServerTrain(models, contamination, data, fit, batch) ==
    LET built    == "anomaly" \in models /\ TotalRows(data) >= 10
        raises   == built /\ TrainFails(data)
        fitted   == built /\ ~raises
        id       == server.instances + 1
        fresh    == NewDetector(contamination, 20)
        trained  == Trained(fresh, data, fit, clock + 1)
        analysed == /\ ~raises
                    /\ "optimizer" \in models
                    /\ BatchRows(batch) >= 10
        opt      == Analyzed(NewOptimizer("balanced", 20, DEFAULT_TIER_CONFIGS),
                             batch, clock + 1)
    IN /\ built => server.instances < MaxInstances
       /\ (fitted \/ analysed) => clock < MaxClock
       /\ server' =
            [anomaly_detector |->
                 IF built
                 THEN <<[id |-> id,
                         obj |-> IF raises THEN fresh ELSE trained]>>
                 ELSE server.anomaly_detector,
             realtime_detector |->
                 IF fitted
                 THEN <<[detector |-> [id |-> id, obj |-> trained],
                         tracker |-> NewTracker(DEFAULT_WINDOW_SIZE,
                                                DEFAULT_PERSISTENCE_THRESHOLD)]>>
                 ELSE server.realtime_detector,
             rate_optimizer |->
                 IF analysed THEN <<opt>> ELSE server.rate_optimizer,
             instances |-> IF built THEN id ELSE server.instances]
       /\ disk' =
            [detector |-> IF fitted THEN <<DetectorFiles(trained)>>
                          ELSE disk.detector,
             optimizer |-> IF analysed
                           THEN <<OptimizerFiles(opt, disk.optimizer)>>
                           ELSE disk.optimizer]
       /\ clock' = IF fitted \/ analysed THEN clock + 1 ELSE clock
       /\ outcome' = [op |-> "/train", ok |-> ~raises,
                      status |-> IF raises THEN 500 ELSE 200,
                      requested |-> "anomaly" \in models,
                      trained |-> fitted,
                      previous |-> server]
       /\ ServerFrame

\* POST /train/synthetic; csv is the synthetic data file, <<>> when there is
\* none
ServerTrainSynthetic(csv, fit) ==
    IF csv = <<>>
    THEN /\ outcome' = [op |-> "/train/synthetic", ok |-> FALSE,
                        status |-> 400, requested |-> TRUE,
                        trained |-> FALSE, previous |-> server]
         /\ UNCHANGED <<server, disk, clock>>
         /\ ServerFrame
    ELSE LET data    == csv[1]
             raises  == TrainFails(data)
             id      == server.instances + 1
             fresh   == NewDetector(CONTAMINATION, 20)
             trained == Trained(fresh, data, fit, clock + 1)
         IN /\ server.instances < MaxInstances
            /\ ~raises => clock < MaxClock
            /\ server' =
                 [server EXCEPT
                    !.anomaly_detector =
                        <<[id |-> id,
                           obj |-> IF raises THEN fresh ELSE trained]>>,
                    !.realtime_detector =
                        IF raises THEN @
                        ELSE <<[detector |-> [id |-> id, obj |-> trained],
                                tracker |->
                                    NewTracker(DEFAULT_WINDOW_SIZE,
                                               DEFAULT_PERSISTENCE_THRESHOLD)]>>,
                    !.instances = id]
            /\ disk' = [disk EXCEPT
                          !.detector = IF raises THEN @
                                       ELSE <<DetectorFiles(trained)>>]
            /\ clock' = IF raises THEN clock ELSE clock + 1
            /\ outcome' = [op |-> "/train/synthetic", ok |-> ~raises,
                           status |-> IF raises THEN 500 ELSE 200,
                           requested |-> TRUE, trained |-> ~raises,
                           previous |-> server]
            /\ ServerFrame

\* POST /model/load
ServerLoad(models) ==
    LET found_detector  == "anomaly" \in models /\ disk.detector # <<>>
        found_optimizer == "optimizer" \in models /\ disk.optimizer # <<>>
        id              == server.instances + 1
        loaded          == [id |-> id,
                            obj |-> LoadedDetector(disk.detector[1])]
    IN /\ found_detector => server.instances < MaxInstances
       /\ server' =
            [anomaly_detector |->
                 IF found_detector THEN <<loaded>>
                 ELSE server.anomaly_detector,
             realtime_detector |->
                 IF found_detector
                 THEN <<[detector |-> loaded,
                         tracker |-> NewTracker(DEFAULT_WINDOW_SIZE,
                                                DEFAULT_PERSISTENCE_THRESHOLD)]>>
                 ELSE server.realtime_detector,
             rate_optimizer |->
                 IF found_optimizer
                 THEN <<LoadedOptimizer(disk.optimizer[1])>>
                 ELSE server.rate_optimizer,
             instances |-> IF found_detector THEN id ELSE server.instances]
       /\ outcome' = [op |-> "/model/load", ok |-> TRUE, status |-> 200,
                      loaded |-> found_detector, previous |-> server]
       /\ UNCHANGED <<disk, clock>>
       /\ ServerFrame

\* POST /model/reset
ServerReset ==
    /\ server' = [server EXCEPT !.anomaly_detector = <<>>,
                                !.realtime_detector = <<>>,
                                !.rate_optimizer = <<>>]
    /\ outcome' = [op |-> "/model/reset", ok |-> TRUE, status |-> 200,
                   previous |-> server]
    /\ UNCHANGED <<disk, clock>>
    /\ ServerFrame

\* POST /detect; body is <<>> for an empty request body.  answered_by is the
\* id of the detector instance that computed the result
ServerDetect(body) ==
    LET NoAnswer(status) ==
            [op |-> "/detect", ok |-> FALSE, status |-> status,
             result |-> NoResult, answered_by |-> 0, previous |-> server]
    IN IF ~ModelTrained(server)
       THEN /\ outcome' = NoAnswer(400)
            /\ UNCHANGED <<server, disk, clock>>
            /\ ServerFrame
       ELSE IF body = <<>>
       THEN /\ outcome' = NoAnswer(400)
            /\ UNCHANGED <<server, disk, clock>>
            /\ ServerFrame
       ELSE IF server.realtime_detector # <<>>
       THEN LET rt == server.realtime_detector[1]
                d  == rt.detector
                t  == rt.tracker
            IN /\ Len(t.window) < MaxDetects
               /\ IF d.obj.is_trained
                  THEN LET after == Processed(d.obj, t, body[1])
                       IN /\ server' = [server EXCEPT
                                !.realtime_detector =
                                    <<[rt EXCEPT !.tracker = after]>>]
                          /\ outcome' =
                               [op |-> "/detect", ok |-> TRUE,
                                status |-> 200,
                                result |->
                                    after.last_results[Len(after.last_results)],
                                answered_by |-> d.id, previous |-> server]
                  ELSE /\ server' = [server EXCEPT
                             !.realtime_detector =
                                 <<[rt EXCEPT !.tracker.window =
                                      Slide(t.window, body[1],
                                            t.window_size)]>>]
                       /\ outcome' = NoAnswer(500)
               /\ UNCHANGED <<disk, clock>>
               /\ ServerFrame
       ELSE /\ outcome' = [op |-> "/detect", ok |-> TRUE, status |-> 200,
                           result |-> DetectResult(
                               server.anomaly_detector[1].obj, body[1]),
                           answered_by |-> server.anomaly_detector[1].id,
                           previous |-> server]
            /\ UNCHANGED <<server, disk, clock>>
            /\ ServerFrame

----------------------------------------------------------------------------
(* Specifications *)

\* the detector on its own: AnomalyDetector(contamination, threshold_multiplier)
InitDetector ==
    /\ detector \in {NewDetector(cfg[1], cfg[2]) : cfg \in DetectorConfigs}
    /\ tracker = NewTracker(1, 1)
    /\ optimizer = NewOptimizer("balanced", 20, DEFAULT_TIER_CONFIGS)
    /\ clock = 0
    /\ disk = EmptyDisk
    /\ calls = <<>>
    /\ saved = EmptyDisk
    /\ outcome = NoOutcome
    /\ threads = NoThreads
    /\ server = NoServer

\* a train call that fails never reaches the fit
FitsOf(data) ==
    IF TrainFails(data) THEN {[m \in Metrics |-> SetMin(ScoreValues)]}
    ELSE Fits

NextDetector ==
    \/ \E data \in TrainingSets : \E fit \in FitsOf(data) : Train(data, fit)
    \/ \E m \in Metrics : Detect(m)

SpecDetector == InitDetector /\ [][NextDetector]_vars

\* the detector and its directory on disk
StoreTrainingSets ==
    {data \in TrainingSets :
        /\ data.inf_rows = 0
        /\ data.rows[Normal] = MaxCopies
        /\ data.rows[Busy] \in {0, MaxCopies}
        /\ data.rows[Spike] \in {0, 1}}

StoreFits == {fit \in Fits : fit[Normal] = fit[Busy]}

StoreFitsOf(data) == IF TrainFails(data) THEN FitsOf(data) ELSE StoreFits

NextDetectorStore ==
    \/ \E data \in StoreTrainingSets :
          \E fit \in StoreFitsOf(data) : Train(data, fit)
    \/ \E m \in Metrics : Detect(m)
    \/ SaveDetector
    \/ LoadDetector

SpecDetectorStore == InitDetector /\ [][NextDetectorStore]_vars

\* the detector's type resolution, over baselines with and without spread
TypeTrainingSets ==
    {data \in TrainingSets :
        /\ data.inf_rows = 0
        /\ data.rows[Normal] = MaxCopies
        /\ data.rows[Busy] \in {0, MaxCopies}
        /\ data.rows[Spike] \in {0, MaxCopies}}

TypeFits == {fit \in Fits : fit[Normal] = -40 /\ fit[Busy] = -40}

TypeFitsOf(data) == IF TrainFails(data) THEN FitsOf(data) ELSE TypeFits

\* samples below, inside and above the trained ranges, feature by feature
TypeProbes ==
    [requests_per_second : {5, 55, 500},
     avg_latency_ms : {35, 400, 500},
     p95_latency_ms : {70, 900},
     p99_latency_ms : {100},
     error_rate : {1, 40}]

NextTypes ==
    \/ \E data \in TypeTrainingSets :
          \E fit \in TypeFitsOf(data) : Train(data, fit)
    \/ \E m \in TypeProbes : IdentifyType(m)

SpecTypes == InitDetector /\ [][NextTypes]_vars

\* a tracker over a detector built with the constructor defaults
TrackerTrainingSets ==
    {data \in TrainingSets :
        /\ data.inf_rows = 0
        /\ data.rows[Normal] = MaxCopies
        /\ data.rows[Busy] \in {0, MaxCopies}
        /\ data.rows[Spike] = 0}

TrackerFits == {fit \in Fits : fit[Normal] = -40 /\ fit[Busy] = -40}

TrackerFitsOf(data) == IF TrainFails(data) THEN FitsOf(data) ELSE TrackerFits

\* the samples sent to process: a typical one and an outlier
TrackerSamples == {Normal, Spike}

InitTracker ==
    /\ detector = NewDetector(10, 20)
    /\ tracker \in {NewTracker(ws, pt) :
                      ws \in 1..MaxWindow, pt \in 1..MaxPersist}
    /\ optimizer = NewOptimizer("balanced", 20, DEFAULT_TIER_CONFIGS)
    /\ clock = 0
    /\ disk = EmptyDisk
    /\ calls = <<>>
    /\ saved = EmptyDisk
    /\ outcome = NoOutcome
    /\ threads = NoThreads
    /\ server = NoServer

NextTracker ==
    \/ \E data \in TrackerTrainingSets :
         \E fit \in TrackerFitsOf(data) : Train(data, fit)
    \/ \E m \in TrackerSamples : Process(m)
    \/ Reset

SpecTracker == InitTracker /\ [][NextTracker]_vars

\* every way to a result: detect, detect_batch and process
BatchLists == UNION {[1..n -> TrackerSamples] : n \in 0..MaxBatch}

InitScoring ==
    /\ detector = NewDetector(10, 20)
    /\ tracker = NewTracker(2, 2)
    /\ optimizer = NewOptimizer("balanced", 20, DEFAULT_TIER_CONFIGS)
    /\ clock = 0
    /\ disk = EmptyDisk
    /\ calls = <<>>
    /\ saved = EmptyDisk
    /\ outcome = NoOutcome
    /\ threads = NoThreads
    /\ server = NoServer

NextScoring ==
    \/ \E data \in TrackerTrainingSets :
         \E fit \in TrackerFitsOf(data) : Train(data, fit)
    \/ \E m \in TrackerSamples : Detect(m)
    \/ \E metrics_list \in BatchLists : DetectBatch(metrics_list)
    \/ \E m \in TrackerSamples : Process(m)

SpecScoring == InitScoring /\ [][NextScoring]_vars

\* a tracker whose window holds a series of samples processed one after the
\* other: requests per second and error rate move one way along the series,
\* latency the other way
Ramp(i) ==
    [requests_per_second |-> 10 + 5 * i, avg_latency_ms |-> 100 - 5 * i,
     p95_latency_ms |-> 200 - 5 * i, p99_latency_ms |-> 300, error_rate |-> i]

RampSamples == {Ramp(i) : i \in 1..MaxSeries}

TrendSeries ==
    {[k \in 1..n |-> Ramp(a + step * (k - 1))] :
        a \in 1..MaxSeries, step \in {-1, 0, 1}, n \in 0..MaxSeries}

TrendSeriesInRange ==
    {series \in TrendSeries :
        \A k \in 1..Len(series) : series[k] \in RampSamples}

\* the forest scores the samples it was fitted to and any other sample
TrendFits ==
    {[m \in Metrics \cup RampSamples |->
         IF m = Ramp(MaxSeries) THEN last ELSE -40] : last \in ScoreValues}

TrendData ==
    [rows |-> [m \in Metrics |-> IF m = Spike THEN 0 ELSE MaxCopies],
     inf_rows |-> 0]

InitTrend ==
    /\ detector \in {Trained(NewDetector(10, 20), TrendData, fit, 1) :
                        fit \in TrendFits}
    /\ tracker \in {TrackerAfter(detector, NewTracker(MaxSeries, 3), series) :
                       series \in TrendSeriesInRange}
    /\ optimizer = NewOptimizer("balanced", 20, DEFAULT_TIER_CONFIGS)
    /\ clock = 1
    /\ disk = EmptyDisk
    /\ calls = <<>>
    /\ saved = EmptyDisk
    /\ outcome = NoOutcome
    /\ threads = NoThreads
    /\ server = NoServer

NextTrend ==
    \/ \E m \in {Ramp(1), Ramp(MaxSeries)} : Process(m)
    \/ GetTrend

SpecTrend == InitTrend /\ [][NextTrend]_vars

\* two request threads calling process on one tracker, without a lock; the
\* tracker has a full window whose last sample was the outlier
ConcurrentStart(d) ==
    TrackerAfter(d, NewTracker(MaxWindow, 2),
                 [k \in 1..MaxWindow |->
                     IF k = MaxWindow THEN Spike ELSE Normal])

ConcurrentData ==
    [rows |-> [m \in Metrics |-> IF m = Spike THEN 0 ELSE MaxCopies],
     inf_rows |-> 0]

InitConcurrent ==
    /\ detector \in {Trained(NewDetector(10, 20), ConcurrentData, fit, 1) :
                        fit \in TrackerFits}
    /\ tracker = ConcurrentStart(detector)
    /\ optimizer = NewOptimizer("balanced", 20, DEFAULT_TIER_CONFIGS)
    /\ clock = 1
    /\ disk = EmptyDisk
    /\ calls = <<>>
    /\ saved = EmptyDisk
    /\ outcome = NoOutcome
    /\ threads = NoThreads
    /\ server = NoServer

NextConcurrent ==
    \E t \in Threads :
        \/ \E m \in TrackerSamples : CallProcess(t, m)
        \/ AppendWindow(t)
        \/ CheckWindow(t)
        \/ PopWindow(t)
        \/ RunDetect(t)
        \/ ReadStreak(t)
        \/ WriteStreak(t)
        \/ ZeroStreak(t)
        \/ CheckPersistence(t)
        \/ BoostConfidence(t)
        \/ MarkConfirmed(t)
        \/ AppendResult(t)
        \/ CheckResults(t)
        \/ PopResults(t)

SpecConcurrent == InitConcurrent /\ [][NextConcurrent]_vars

\* the optimizer on its own: RateLimitOptimizer(strategy, headroom_percent,
\* tier_configs), the constructor defaults and two overrides
OptimizerConfigs ==
    {<<"balanced", 20, DEFAULT_TIER_CONFIGS>>,
     <<"adaptive", 50, DEFAULT_TIER_CONFIGS>>,
     <<"conservative", 20, TRIAL_TIER_CONFIGS>>}

\* the tier argument is any string: tier names, the default and one that no
\* table knows
TierArgs == {"free", "standard", "enterprise", "default", "gold"}
StrategyArgs == {"None", "conservative", "permissive", "adaptive"}
LimitArgs == {<<>>, <<1000>>}

InitOptimizer ==
    /\ detector = NewDetector(10, 20)
    /\ tracker = NewTracker(1, 1)
    /\ optimizer \in {NewOptimizer(c[1], c[2], c[3]) : c \in OptimizerConfigs}
    /\ clock = 0
    /\ disk = EmptyDisk
    /\ calls = <<>>
    /\ saved = EmptyDisk
    /\ outcome = NoOutcome
    /\ threads = NoThreads
    /\ server = NoServer

NextOptimizer ==
    \/ \E batch \in Batches : AnalyzeTraffic(batch)
    \/ \E e \in Endpoints \cup {UNPROFILED}, t \in TierArgs,
          c \in LimitArgs, st \in StrategyArgs : Recommend(e, t, c, st)
    \/ \E t \in TierArgs, st \in StrategyArgs : RecommendAll(t, st)

SpecOptimizer == InitOptimizer /\ [][NextOptimizer]_vars

\* the optimizer and its directory on disk
StoreBatches ==
    {b \in Batches : \A e \in DOMAIN b : b[e] \in {GroupQuiet, GroupBursty}}

NextOptimizerStore ==
    \/ \E batch \in StoreBatches : AnalyzeTraffic(batch)
    \/ \E e \in {ENDPOINTS[1], UNPROFILED}, t \in {"free", "gold"},
          st \in {"None", "adaptive"} : Recommend(e, t, <<>>, st)
    \/ SaveOptimizer
    \/ LoadOptimizer

SpecOptimizerStore == InitOptimizer /\ [][NextOptimizerStore]_vars

\* clustering: batches over every known endpoint
ClusterBatches ==
    UNION {[S -> {GroupQuiet, GroupBursty}] :
              S \in SUBSET {KNOWN_ENDPOINTS[i] : i \in 1..Len(KNOWN_ENDPOINTS)}}

NextClustering ==
    \/ \E batch \in ClusterBatches : AnalyzeTraffic(batch)
    \/ \E n \in 1..MaxClusters :
          \E labels \in Labellings(optimizer, ClusterCount(optimizer, n)) :
              ClusterEndpoints(n, labels)

SpecClustering == InitOptimizer /\ [][NextClustering]_vars

\* _round_to_nice_number on its own: whole and half values
RoundInputs ==
    {<<n, 1>> : n \in 0..MaxRoundInput}
        \cup {<<2 * n + 1, 2>> : n \in 0..MaxRoundInput}

\* _round_to_nice_number reads nothing but its argument: one call per
\* behaviour covers every value
NextRounding ==
    outcome = NoOutcome /\ \E value \in RoundInputs : RoundToNice(value)

SpecRounding == InitOptimizer /\ [][NextRounding]_vars

\* the server from its start on an empty model directory
InitServer ==
    /\ detector = NewDetector(10, 20)
    /\ tracker = NewTracker(1, 1)
    /\ optimizer = NewOptimizer("balanced", 20, DEFAULT_TIER_CONFIGS)
    /\ clock = 0
    /\ disk = EmptyDisk
    /\ calls = <<>>
    /\ saved = EmptyDisk
    /\ outcome = NoOutcome
    /\ threads = NoThreads
    /\ server = NoServer

\* the frames a training request reads: too few rows, enough rows of which
\* too few are usable, and enough usable rows
ServerTrainingSets ==
    {data \in TrainingSets :
        /\ data.rows[Normal] = MaxCopies
        /\ data.rows[Busy] \in {0, MaxCopies}
        /\ data.rows[Spike] = 0
        /\ data.rows[Busy] = MaxCopies => data.inf_rows = 0}

\* the forest a training request fits: the outlier scores below the rest
ServerFitsOf(data) ==
    IF TrainFails(data) THEN FitsOf(data)
    ELSE {fit \in TrackerFits : fit[Spike] = SetMin(ScoreValues)}

\* the contamination of a /train request: the default and an override
ServerContaminations == {CONTAMINATION, 20}

\* the per-endpoint records a /train request reads: none, or one endpoint's
ServerBatches ==
    {b \in Batches : \A e \in DOMAIN b : e = ENDPOINTS[1] /\ b[e] = GroupQuiet}

\* the synthetic data file: absent, or holding one of the frames
SyntheticFiles == {<<>>} \cup {<<data>> : data \in ServerTrainingSets}

\* the bodies of a /detect request: empty, a typical sample, an outlier
DetectBodies == {<<>>} \cup {<<m>> : m \in TrackerSamples}

NextServer ==
    \/ \E models \in ModelSelections, contamination \in ServerContaminations,
          data \in ServerTrainingSets, batch \in ServerBatches :
         \E fit \in ServerFitsOf(data) :
            ServerTrain(models, contamination, data, fit, batch)
    \/ \E csv \in SyntheticFiles :
         \E fit \in IF csv = <<>> THEN TrackerFits ELSE ServerFitsOf(csv[1]) :
            ServerTrainSynthetic(csv, fit)
    \/ \E models \in ModelSelections : ServerLoad(models)
    \/ ServerReset
    \/ \E body \in DetectBodies : ServerDetect(body)

SpecServer == InitServer /\ [][NextServer]_vars

----------------------------------------------------------------------------
(* History operators used by the properties *)

AllCallsOk == \A i \in 1..Len(calls) : calls[i].ok

RECURSIVE TrailingAnomalous(_)
\* the number of consecutive anomalous results at the end of a call history
TrailingAnomalous(h) ==
    IF h = <<>> THEN 0
    ELSE LET last == h[Len(h)]
         IN IF last.ok /\ last.result.is_anomaly
            THEN 1 + TrailingAnomalous(SubSeq(h, 1, Len(h) - 1))
            ELSE 0

----------------------------------------------------------------------------
(* Properties *)

C2_WindowHoldsLastSamples ==
    LET k == Len(calls)
        N == tracker.window_size
        j == Min(k, N)
    IN /\ Len(tracker.window) <= N
       /\ Len(tracker.last_results) <= N
       /\ AllCallsOk =>
            /\ tracker.window = [i \in 1..j |-> calls[k - j + i].metrics]
            /\ tracker.last_results = [i \in 1..j |-> calls[k - j + i].result]
            /\ (k >= N => Len(tracker.window) = N)

C2_Witness ==
    /\ AllCallsOk
    /\ Len(calls) >= tracker.window_size + 2
    /\ tracker.window_size >= 2
    /\ tracker.window[1] # tracker.window[2]

\* C3: the result of a process call that ends a run of at least
\* persistence_threshold consecutive anomalous calls carries the confirmation
\* marker, and its confidence is min(1.2 x the unconfirmed confidence, 1.0):
\* never below the unconfirmed value, never above 1.0.
C3_PersistentAnomalyConfirmed ==
    (/\ outcome.op = "process"
     /\ outcome.ok
     /\ TrailingAnomalous(calls) >= tracker.persistence_threshold) =>
        LET base == DetectResult(detector, outcome.arg).confidence
            got  == outcome.result.confidence
        IN /\ outcome.result.explanation.confirmed
           /\ outcome.result.explanation.intervals = TrailingAnomalous(calls)
           /\ IF 6 * base <= 5 * CONFIDENCE_ONE
              THEN 5 * got = 6 * base
              ELSE got = CONFIDENCE_ONE
           /\ got >= base
           /\ got <= CONFIDENCE_ONE

C3_Witness ==
    /\ outcome.op = "process"
    /\ outcome.ok
    /\ TrailingAnomalous(calls) > tracker.persistence_threshold
    /\ tracker.persistence_threshold >= 2
    /\ outcome.result.confidence = CONFIDENCE_ONE
    /\ DetectResult(detector, outcome.arg).confidence < CONFIDENCE_ONE

\* C4: every successful process call sets anomaly_streak to the previous
\* streak plus 1 if its result is anomalous and to 0 otherwise; so the streak
\* is always the number of consecutive anomalous results ending at the most
\* recent call, also beyond window_size.
C4_StreakCountsRun ==
    /\ [](tracker.anomaly_streak = TrailingAnomalous(calls))
    /\ [][(outcome'.op = "process" /\ outcome'.ok) =>
            tracker'.anomaly_streak =
                IF outcome'.result.is_anomaly
                THEN tracker.anomaly_streak + 1 ELSE 0]_vars

C4_Witness ==
    /\ outcome.op = "process"
    /\ outcome.ok
    /\ tracker.anomaly_streak > tracker.window_size
    /\ tracker.anomaly_streak >= 3

\* C5: reset empties the window and the result history and zeroes the
\* streak, leaving the detector, window_size and persistence_threshold as
\* they were: the tracker is in the state of a freshly created tracker.
C5_ResetRestoresFreshTracker ==
    /\ [](outcome.op = "reset" =>
            /\ tracker.window = <<>>
            /\ tracker.anomaly_streak = 0
            /\ tracker.last_results = <<>>
            /\ tracker = NewTracker(tracker.window_size,
                                    tracker.persistence_threshold))
    /\ [][outcome'.op = "reset" =>
            /\ detector' = detector
            /\ tracker'.window_size = tracker.window_size
            /\ tracker'.persistence_threshold = tracker.persistence_threshold]_vars

C5_Witness ==
    /\ outcome.op = "reset"
    /\ outcome.dropped > 0
    /\ outcome.streak > 0
    /\ detector.is_trained

C7_FailedTrainLeavesDetector ==
    [][(outcome'.op = "train" /\ UsableRows(outcome'.arg) < 10) =>
          /\ ~outcome'.ok
          /\ outcome'.error = "Insufficient training data"
          /\ detector' = detector
          /\ detector.is_trained =>
                \A m \in Metrics :
                    DetectResult(detector', m) = DetectResult(detector, m)]_vars

C7_Witness ==
    /\ outcome.op = "train"
    /\ ~outcome.ok
    /\ detector.is_trained
    /\ UsableRows(outcome.arg) + outcome.arg.inf_rows >= 10

\* the arguments recommend can be called with
AllEndpoints == Endpoints \cup {UNPROFILED}
AllTiers == TierLevels \cup {"default", "gold"}
TIER_ORDER == <<"free", "basic", "standard", "premium", "enterprise">>

RecommendedLimit(endpoint, tier, current_limit, strategy) ==
    Recommendation(optimizer, endpoint, tier, current_limit,
                   strategy).recommended_limit

\* C8: for a fixed optimizer state, endpoint (profiled or not), tier and
\* current_limit, the limit recommended under the conservative strategy is
\* at most the one under balanced, which is at most the one under permissive.
C8_StrategyOrdering ==
    \A e \in AllEndpoints, t \in AllTiers, c \in LimitArgs :
        /\ RecommendedLimit(e, t, c, "conservative")
              <= RecommendedLimit(e, t, c, "balanced")
        /\ RecommendedLimit(e, t, c, "balanced")
              <= RecommendedLimit(e, t, c, "permissive")

\* a permissive recommendation for a profiled endpoint has been returned, and
\* the three strategies give three different limits for that call
C8_Witness ==
    /\ outcome.op = "recommend"
    /\ outcome.arg[1] \in DOMAIN optimizer.endpoint_profiles
    /\ outcome.arg[4] = "permissive"
    /\ LET e == outcome.arg[1]
           t == outcome.arg[2]
           c == outcome.arg[3]
       IN /\ outcome.result.recommended_limit
                = RecommendedLimit(e, t, c, "permissive")
          /\ RecommendedLimit(e, t, c, "conservative")
                < RecommendedLimit(e, t, c, "balanced")
          /\ RecommendedLimit(e, t, c, "balanced")
                < RecommendedLimit(e, t, c, "permissive")

TierOrdered(endpoint, strategy) ==
    \A i \in 1..(Len(TIER_ORDER) - 1), c \in LimitArgs :
        RecommendedLimit(endpoint, TIER_ORDER[i], c, strategy)
            <= RecommendedLimit(endpoint, TIER_ORDER[i + 1], c, strategy)

BaseLimitsOrdered(configs) ==
    \A i \in 1..(Len(TIER_ORDER) - 1) :
        configs[TIER_ORDER[i]].base_limit
            <= configs[TIER_ORDER[i + 1]].base_limit

\* C9 as stated: for a fixed optimizer state, endpoint (profiled or not) and
\* strategy (including adaptive), the recommended limits are ordered
\* free <= basic <= standard <= premium <= enterprise.
C9_TierOrderingAnyConfig ==
    \A e \in AllEndpoints, st \in StrategyArgs \cup Strategies :
        TierOrdered(e, st)

\* C9: for a fixed optimizer state and strategy (including adaptive), the
\* recommended limits are ordered free <= basic <= standard <= premium <=
\* enterprise for a profiled endpoint, and for an unprofiled endpoint when the
\* base limits of tier_configs are in that order, as the default ones are.
C9_TierOrdering ==
    \A e \in AllEndpoints, st \in StrategyArgs \cup Strategies :
        (e \in DOMAIN optimizer.endpoint_profiles
            \/ BaseLimitsOrdered(optimizer.tier_configs))
        => TierOrdered(e, st)

\* an enterprise recommendation for a profiled endpoint has been returned by
\* an optimizer whose tier_configs are not in tier order, and the limits of
\* the five tiers for that call are strictly increasing
C9_Witness ==
    /\ outcome.op = "recommend"
    /\ outcome.arg[1] \in DOMAIN optimizer.endpoint_profiles
    /\ outcome.arg[2] = "enterprise"
    /\ ~BaseLimitsOrdered(optimizer.tier_configs)
    /\ LET e == outcome.arg[1]
           c == outcome.arg[3]
           st == outcome.arg[4]
       IN /\ outcome.result.recommended_limit
                = RecommendedLimit(e, "enterprise", c, st)
          /\ \A i \in 1..(Len(TIER_ORDER) - 1) :
                RecommendedLimit(e, TIER_ORDER[i], c, st)
                    < RecommendedLimit(e, TIER_ORDER[i + 1], c, st)

\* C10: recommend (and recommend_all) changes no optimizer state, so a
\* recommend call with the arguments of the previous recommend call returns
\* the same recommendation, and every recommendation returned is the one the
\* unchanged state determines, however many such calls are made in between.
C10_RecommendReadsOnly ==
    [][outcome'.op \in {"recommend", "recommend_all"} =>
          /\ optimizer' = optimizer
          /\ (outcome'.op = "recommend" =>
                outcome'.result = Recommendation(optimizer',
                    outcome'.arg[1], outcome'.arg[2],
                    outcome'.arg[3], outcome'.arg[4]))
          /\ (outcome.op = "recommend" /\ outcome'.op = "recommend"
                /\ outcome'.arg = outcome.arg
                => outcome'.result = outcome.result)]_vars

\* a recommendation for a profiled endpoint has been returned under a strategy
\* override that differs from the optimizer's own strategy
C10_Witness ==
    /\ outcome.op = "recommend"
    /\ optimizer.is_trained
    /\ outcome.arg[1] \in DOMAIN optimizer.endpoint_profiles
    /\ outcome.arg[4] \notin {"None", optimizer.strategy}
    /\ outcome.result.strategy = outcome.arg[4]
    /\ optimizer.strategy # outcome.arg[4]

\* the values test_round_to_nice_number expects
NICE_SCENARIOS ==
    <<<<7, 7>>, <<23, 25>>, <<67, 70>>, <<123, 125>>, <<780, 800>>,
      <<2340, 2500>>>>

\* C11: round-to-nice returns the scenario values: 7 -> 7, 23 -> 25,
\* 67 -> 70, 123 -> 125, 780 -> 800 and 2340 -> 2500.
C11_NiceScenarioValues ==
    outcome.op = "round_to_nice" =>
        \A i \in 1..Len(NICE_SCENARIOS) :
            outcome.arg = <<NICE_SCENARIOS[i][1], 1>>
                => outcome.result = NICE_SCENARIOS[i][2]

\* C12: the optimizer obtained by save then load returns the same
\* recommendation as the optimizer that was saved (any strategy,
\* headroom_percent, tier configuration and set of profiles) for every
\* endpoint (profiled or not), tier, current_limit and strategy argument.
C12_OptimizerRoundTrip ==
    [][outcome'.op = "load_optimizer" /\ outcome'.ok =>
          \A e \in AllEndpoints, t \in AllTiers, c \in LimitArgs,
             st \in StrategyArgs \cup Strategies :
                Recommendation(optimizer', e, t, c, st)
                    = Recommendation(saved.optimizer[1], e, t, c, st)]_vars

\* C13: the detector obtained by save then load is trained and has the
\* scaler, ensemble model, baselines, threshold_multiplier, contamination and
\* score_threshold of the detector that was saved, so detect returns the same
\* result (is_anomaly, scores, anomaly_type, severity, confidence,
\* explanation) as that detector for every input.
C13_DetectorRoundTrip ==
    [][outcome'.op = "load_detector" /\ outcome'.ok =>
          LET d == saved.detector[1]
          IN /\ detector'.is_trained
             /\ detector'.scaler = d.scaler
             /\ detector'.model = d.model
             /\ detector'.baselines = d.baselines
             /\ detector'.threshold_multiplier = d.threshold_multiplier
             /\ detector'.contamination = d.contamination
             /\ detector'.score_threshold = d.score_threshold
             /\ \A m \in Metrics :
                   DetectResult(detector', m) = DetectResult(d, m)]_vars

\* a load has replaced a retrained detector whose verdict on some sample
\* differs from the verdict of the detector that was saved
C13_Witness ==
    /\ outcome.op = "load_detector"
    /\ outcome.ok
    /\ outcome.previous.is_trained
    /\ detector = saved.detector[1]
    /\ \E m \in Metrics :
          /\ DetectResult(detector, m).is_anomaly
          /\ DetectResult(detector, m).anomaly_type # "pattern_anomaly"
          /\ ~DetectResult(outcome.previous, m).is_anomaly

\* the places (cluster, position) of an endpoint in a clustering result
ClusterPlaces(result, e) ==
    {p \in UNION {{<<j, k>> : k \in 1..Len(result[j].endpoints)} :
                     j \in 1..Len(result)} :
        result[p[1]].endpoints[p[2]] = e}

\* C14: for any set of profiled endpoints, any n_clusters >= 1 (also one
\* larger than the number of endpoints) and any labelling, the endpoint
\* lists cluster_endpoints returns partition the profiled endpoints: every
\* endpoint is in exactly one returned cluster, none is omitted, and the
\* returned clusters have different names also when heuristic names collide.
C14_ClustersPartition ==
    outcome.op = "cluster_endpoints" =>
        LET result == outcome.result
        IN /\ \A e \in DOMAIN optimizer.endpoint_profiles :
                 Cardinality(ClusterPlaces(result, e)) = 1
           /\ \A j \in 1..Len(result) :
                 /\ result[j].endpoints # <<>>
                 /\ \A k \in 1..Len(result[j].endpoints) :
                       result[j].endpoints[k]
                           \in DOMAIN optimizer.endpoint_profiles
           /\ \A i, j \in 1..Len(result) :
                 result[i].name = result[j].name => i = j

\* three profiled endpoints were clustered with n_clusters above their
\* number, and two of the returned clusters got the same heuristic name
C14_Witness ==
    /\ outcome.op = "cluster_endpoints"
    /\ Cardinality(DOMAIN optimizer.endpoint_profiles) = 3
    /\ outcome.arg[1] > 3
    /\ Len(outcome.result) = 3
    /\ \E j \in 1..Len(outcome.result) : outcome.result[j].name.counter = 2

PositiveCounts(rec) ==
    /\ rec.recommended_limit \in Int
    /\ rec.recommended_limit >= 1
    /\ rec.recommended_burst \in Int
    /\ rec.recommended_burst >= 1

\* C15: under the default tier configuration every recommendation returned
\* by recommend or recommend_all, for any profile, tier and strategy
\* (adaptive included), has an integer recommended_limit >= 1 and an integer
\* recommended_burst >= 1.
C15_PositiveLimits ==
    optimizer.tier_configs = DEFAULT_TIER_CONFIGS =>
        /\ outcome.op = "recommend" => PositiveCounts(outcome.result)
        /\ outcome.op = "recommend_all" =>
              \A i \in 1..Len(outcome.result) :
                  PositiveCounts(outcome.result[i])
        /\ \A e \in AllEndpoints, t \in AllTiers,
              st \in StrategyArgs \cup Strategies :
                  PositiveCounts(Recommendation(optimizer, e, t, <<>>, st))

\* the smallest case was returned: an adaptive free-tier recommendation for a
\* profiled endpoint with a p95 rate of zero and the smallest adaptive
\* multiplier, whose limit is exactly 1
C15_Witness ==
    /\ optimizer.tier_configs = DEFAULT_TIER_CONFIGS
    /\ outcome.op = "recommend"
    /\ outcome.arg[1] \in DOMAIN optimizer.endpoint_profiles
    /\ outcome.arg[2] = "free"
    /\ outcome.result.strategy = "adaptive"
    /\ outcome.result.profile[1].p95_requests_per_minute = 0
    /\ outcome.result.recommended_limit = 1

\* C16: recommend_all on an optimizer on which no traffic analysis (or load
\* of analysed state) has succeeded fails with the model-not-trained error
\* instead of returning a list of recommendations.
C16_RecommendAllNeedsTraining ==
    outcome.op = "recommend_all" /\ ~optimizer.is_trained => ~outcome.ok

\* C17: detect_batch on a list returns a list of the same length whose i-th
\* element is detect of the i-th sample on its own, in input order; detect
\* and detect_batch change no detector state, so an element's result depends
\* neither on the other elements nor on their order.
C17_BatchIsElementwise ==
    /\ [](outcome.op = "detect_batch" /\ outcome.ok =>
            /\ Len(outcome.result) = Len(outcome.arg)
            /\ \A i \in 1..Len(outcome.arg) :
                  outcome.result[i] = DetectResult(detector, outcome.arg[i]))
    /\ [][outcome'.op \in {"detect", "detect_batch"} =>
            detector' = detector]_vars

\* a batch of two different samples was scored, the first one normal and the
\* second one anomalous
C17_Witness ==
    /\ outcome.op = "detect_batch"
    /\ outcome.ok
    /\ Len(outcome.arg) = 2
    /\ outcome.arg[1] # outcome.arg[2]
    /\ ~outcome.result[1].is_anomaly
    /\ outcome.result[2].is_anomaly

\* severity and anomaly_type are set exactly when the result is anomalous
GradedIffAnomalous(result) ==
    /\ (result.severity # "None") = result.is_anomaly
    /\ (result.anomaly_type # "None") = result.is_anomaly

\* C18: in every result produced by detect, detect_batch or process,
\* severity is set if and only if is_anomaly is true, and so is anomaly_type.
C18_SeverityIffAnomalous ==
    /\ outcome.op \in {"detect", "process"} /\ outcome.ok =>
          GradedIffAnomalous(outcome.result)
    /\ outcome.op = "detect_batch" /\ outcome.ok =>
          \A i \in 1..Len(outcome.result) :
              GradedIffAnomalous(outcome.result[i])
    /\ \A i \in 1..Len(tracker.last_results) :
          GradedIffAnomalous(tracker.last_results[i])

\* process returned a normal result right after an anomalous one that the
\* tracker still holds
C18_Witness ==
    /\ outcome.op = "process"
    /\ outcome.ok
    /\ ~outcome.result.is_anomaly
    /\ outcome.result.severity = "None"
    /\ Len(tracker.last_results) = 2
    /\ tracker.last_results[1].is_anomaly
    /\ tracker.last_results[1].severity # "None"
    /\ tracker.last_results[1].anomaly_type = "traffic_spike"

ProbeZ(f) ==
    LET b == detector.baselines[f]
    IN [num |-> b.n * outcome.arg[f] - b.sum,
        den2 |-> b.n * b.sumsq - b.sum * b.sum]

FiresUp(f) ==
    /\ f \in DOMAIN detector.baselines
    /\ ProbeZ(f).den2 # 0
    /\ ProbeZ(f).num > 0
    /\ RatGreater(ProbeZ(f).num * ProbeZ(f).num, ProbeZ(f).den2,
                  detector.threshold_multiplier
                      * detector.threshold_multiplier, 100)

FiresDown(f) ==
    /\ f \in DOMAIN detector.baselines
    /\ ProbeZ(f).den2 # 0
    /\ ProbeZ(f).num < 0
    /\ RatGreater(ProbeZ(f).num * ProbeZ(f).num, ProbeZ(f).den2,
                  detector.threshold_multiplier
                      * detector.threshold_multiplier, 100)

FiredGroups ==
    {g \in {"traffic", "latency", "errors"} :
        CASE g = "traffic" -> FiresUp("requests_per_second")
                                  \/ FiresDown("requests_per_second")
          [] g = "latency" -> FiresUp("avg_latency_ms")
                                  \/ FiresUp("p95_latency_ms")
          [] g = "errors" -> FiresUp("error_rate")}

GroupType(g) ==
    CASE g = "traffic" -> IF FiresUp("requests_per_second")
                          THEN "traffic_spike" ELSE "traffic_drop"
      [] g = "latency" -> "latency_spike"
      [] g = "errors" -> "error_rate_spike"

\* the magnitude a fired group is scored by
GroupScore(g) ==
    CASE g = "traffic" ->
            [num |-> IF ProbeZ("requests_per_second").num < 0
                     THEN -ProbeZ("requests_per_second").num
                     ELSE ProbeZ("requests_per_second").num,
             den2 |-> ProbeZ("requests_per_second").den2]
      [] g = "latency" ->
            IF ~FiresUp("p95_latency_ms") THEN ProbeZ("avg_latency_ms")
            ELSE IF ~FiresUp("avg_latency_ms") THEN ProbeZ("p95_latency_ms")
            ELSE IF ZGreater(ProbeZ("p95_latency_ms"),
                             ProbeZ("avg_latency_ms"))
                 THEN ProbeZ("p95_latency_ms")
            ELSE ProbeZ("avg_latency_ms")
      [] g = "errors" -> ProbeZ("error_rate")

\* C20: the anomaly type is resolved over three feature groups: traffic
\* (requests per second, spike or drop by sign), latency (average or p95,
\* upwards only) and errors (error rate, upwards only).  A group fires when
\* its z-score exceeds threshold_multiplier in that direction, never on a
\* baseline of zero standard deviation.  No group fired: PATTERN_ANOMALY
\* with type score 0.5.  One or two fired: the fired type with the largest
\* z-score magnitude, latency scored by the larger of its two z-scores.  All
\* three fired: MULTI_DIMENSIONAL.
C20_TypeResolution ==
    outcome.op = "identify_anomaly_type" =>
        LET typed == outcome.result
        IN /\ FiredGroups = {} =>
                typed = [type |-> "pattern_anomaly", score |-> HALF_Z]
           /\ Cardinality(FiredGroups) \in {1, 2} =>
                \E g \in FiredGroups :
                    /\ typed.type = GroupType(g)
                    /\ typed.score = GroupScore(g)
                    /\ \A h \in FiredGroups :
                          ~ZGreater(GroupScore(h), GroupScore(g))
           /\ Cardinality(FiredGroups) = 3 =>
                typed.type = "multi_dimensional"

\* latency and errors fired, traffic did not, and the error rate, the larger
\* of the two, gave the type
C20_Witness ==
    /\ outcome.op = "identify_anomaly_type"
    /\ detector.is_trained
    /\ FiredGroups = {"latency", "errors"}
    /\ ZGreater(GroupScore("errors"), GroupScore("latency"))
    /\ outcome.result.type = "error_rate_spike"

\* the recommendation last returned is that of an endpoint with a profile
ProfiledRecommendation ==
    /\ outcome.op = "recommend"
    /\ outcome.arg[1] \in DOMAIN optimizer.endpoint_profiles

\* C21: for every recommendation of a profiled endpoint the burst is
\* clamp(2 x typical_burst, max(10, recommended_limit / 6),
\* recommended_limit), then rounded to a nice number, and the recommended
\* burst does not exceed the recommended limit.
C21_BurstWithinLimit ==
    ProfiledRecommendation =>
        LET rec == outcome.result
            limit == rec.recommended_limit
            candidate == 2 * rec.profile[1].typical_burst_size
            min_burst == IF limit \div 6 > 10 THEN limit \div 6 ELSE 10
            clamped == IF candidate > limit
                       THEN (IF limit < min_burst THEN min_burst ELSE limit)
                       ELSE IF candidate < min_burst THEN min_burst
                       ELSE candidate
        IN /\ rec.recommended_burst = RoundToNiceNumber(clamped, 1)
           /\ rec.recommended_burst <= rec.recommended_limit

\* C22: for a profiled endpoint recommended_limit equals
\* round(base x tier_mult x strategy_mult), where base is the round-to-nice
\* base limit (floor 10), tier_mult one of 0.5, 0.75, 1.0, 1.5, 2.5, 5.0 and
\* strategy_mult 0.7, 1.0, 1.3 or the adaptive product, for every base, tier
\* and strategy.
C22_LimitIsRoundedProduct ==
    ProfiledRecommendation =>
        LET rec == outcome.result
            base == CalculateBaseLimit(optimizer, rec.profile[1])
            tier_mult == GetTierMultiplier(outcome.arg[2])
            strategy_mult ==
                CASE rec.strategy = "conservative" -> <<7, 10>>
                  [] rec.strategy = "permissive" -> <<13, 10>>
                  [] rec.strategy = "adaptive" ->
                        CalculateAdaptiveMultiplier(rec.profile[1])
                  [] OTHER -> <<1, 1>>
        IN rec.recommended_limit
              = RoundHalfEven(base * tier_mult[1] * strategy_mult[1],
                              tier_mult[2] * strategy_mult[2])

\* the values of feature f over the window change by the same step from
\* each sample to the next
SteadySeries(f, step) ==
    \A k \in 1..(Len(tracker.window) - 1) :
        tracker.window[k + 1][f] - tracker.window[k][f] = step

TrendNamed(f) ==
    CASE f = "requests_per_second" -> outcome.result.rps_trend
      [] f = "avg_latency_ms" -> outcome.result.latency_trend
      [] f = "error_rate" -> outcome.result.error_trend

\* C23: get_trend reports a series of n samples (2 <= n <= window_size)
\* whose requests_per_second grows by a constant positive step as
\* 'increasing', one that falls by a constant step as 'decreasing' and a
\* constant one as 'stable'; the same for the latency and the error-rate
\* series.
C23_SteadySeriesTrend ==
    outcome.op = "get_trend" /\ Len(tracker.window) >= 2 =>
        \A f \in {"requests_per_second", "avg_latency_ms", "error_rate"} :
            \A step \in -5..5 :
                SteadySeries(f, step) =>
                    TrendNamed(f) = IF step > 0 THEN "increasing"
                                    ELSE IF step < 0 THEN "decreasing"
                                    ELSE "stable"

\* C24: after a successful analyze_traffic(batch) the stored profile set
\* holds exactly one profile per endpoint of the batch and nothing else:
\* profiles of an earlier analysis for endpoints absent from the batch are
\* discarded (recommend for them takes the no-profile default), and no
\* profile value is merged with its earlier value.
C24_AnalysisReplacesProfiles ==
    outcome.op = "analyze_traffic" =>
        /\ DOMAIN optimizer.endpoint_profiles = DOMAIN outcome.arg
        /\ \A e \in DOMAIN outcome.arg :
              LET profile == optimizer.endpoint_profiles[e]
                  group == outcome.arg[e]
              IN /\ profile.endpoint = e
                 /\ profile.avg_requests_per_minute = group.minute_mean
                 /\ profile.peak_requests_per_minute = group.minute_max
                 /\ profile.p95_requests_per_minute = group.minute_p95
                 /\ profile.avg_latency_ms = group.latency_mean
                 /\ profile.total_requests = group.rows
                 /\ profile.unique_users = group.users
                 /\ profile = BuildEndpointProfile(e, group)
        /\ \A e \in DOMAIN outcome.previous \ DOMAIN outcome.arg :
              \A t \in TierArgs, st \in StrategyArgs :
                 LET rec == Recommendation(optimizer, e, t, <<>>, st)
                 IN /\ rec.profile = <<>>
                    /\ rec.warnings = <<"no traffic data available">>
                    /\ rec.confidence = DEFAULT_CONFIDENCE

\* a second analysis dropped the profile of one endpoint and replaced the
\* profile of another by a different one
C24_Witness ==
    /\ outcome.op = "analyze_traffic"
    /\ ENDPOINTS[2] \in DOMAIN outcome.previous
    /\ ENDPOINTS[2] \notin DOMAIN optimizer.endpoint_profiles
    /\ ENDPOINTS[1] \in DOMAIN outcome.previous
    /\ ENDPOINTS[1] \in DOMAIN optimizer.endpoint_profiles
    /\ outcome.previous[ENDPOINTS[1]].total_requests
          > optimizer.endpoint_profiles[ENDPOINTS[1]].total_requests

\* both threads made their call and returned
BothReturned == \A t \in Threads : threads[t].pc = "done"

\* the tracker two process calls leave when one runs after the other
SerialTrackers ==
    {TrackerAfter(detector, ConcurrentStart(detector),
                  <<threads[a].metrics[1], threads[b].metrics[1]>>) :
        <<a, b>> \in {<<1, 2>>, <<2, 1>>}}

\* both samples were anomalous and the streak grew by one only
LostIncrement ==
    /\ \A t \in Threads : threads[t].result.is_anomaly
    /\ tracker.anomaly_streak = ConcurrentStart(detector).anomaly_streak + 1

\* the window and the result history do not describe the same samples
HistoryMismatch ==
    \/ Len(tracker.window) # Len(tracker.last_results)
    \/ \E i \in 1..Len(tracker.window) :
          tracker.last_results[i].features # tracker.window[i]

\* C25: process is not safe under concurrent calls on one tracker: two
\* calls that do not overlap leave a state some serial order produces, but
\* when they interleave a state is reachable that no serial order produces,
\* such as an anomaly_streak that lost an increment or a window and a
\* result history that no longer describe the same samples.
C25_InterleavingNotSerial ==
    BothReturned =>
        /\ (\A t \in Threads : ~threads[t].overlapped)
              => tracker \in SerialTrackers
        /\ LostIncrement => tracker \notin SerialTrackers
        /\ HistoryMismatch => tracker \notin SerialTrackers

\* two overlapping calls returned and left a window and a result history
\* of the same length that hold the two samples in different orders
C25_Witness ==
    /\ BothReturned
    /\ \A t \in Threads : threads[t].overlapped
    /\ HistoryMismatch
    /\ Len(tracker.window) = Len(tracker.last_results)
    /\ tracker \notin SerialTrackers

\* the band boundaries of _round_to_nice_number
BAND_BOUNDARIES == <<10, 50, 100, 500, 1000, 5000>>

\* the values, in halves, the value last rounded (h halves) is compared
\* with: the next ones on the grid of halves, where every tie lies, and the
\* values around each band boundary
LaterHalves(h) ==
    {k \in (h + 1)..(h + 4) : k <= 2 * MaxRoundInput + 1}
        \cup {k \in {2 * BAND_BOUNDARIES[i] + j :
                        i \in 1..Len(BAND_BOUNDARIES), j \in {-1, 0, 1}} :
                 k >= h}

\* C26: round-to-nice is monotone non-decreasing over its whole domain,
\* across the band boundaries 10, 50, 100, 500, 1000 and 5000 and at
\* half-way ties: for all values a <= b, round-to-nice(a) <=
\* round-to-nice(b).
C26_RoundToNiceMonotone ==
    outcome.op = "round_to_nice" =>
        LET h == outcome.arg[1] * (2 \div outcome.arg[2])
        IN \A k \in LaterHalves(h) :
              outcome.result <= RoundToNiceNumber(k, 2)

\* 49.5, in the band of fives, was rounded up to the boundary 50, and 50.5,
\* in the band of tens, is rounded down to it
C26_Witness ==
    /\ outcome.op = "round_to_nice"
    /\ outcome.arg = <<99, 2>>
    /\ outcome.result = 50
    /\ RoundToNiceNumber(101, 2) = 50
    /\ RoundToNiceNumber(25, 2) = 10

\* C27: a process call that fails because the wrapped detector is not
\* trained leaves the tracker exactly as it was before the call (window,
\* anomaly_streak and result history unchanged), so the window and the
\* result history always have the same length.
C27_FailedProcessKeepsTracker ==
    /\ [][outcome'.op = "process" /\ ~outcome'.ok => tracker' = tracker]_vars
    /\ [](Len(tracker.window) = Len(tracker.last_results))

\* C28: for a tracker with persistence_threshold >= 1, a result returned by
\* process carries the confirmation marker and the confidence boost if and
\* only if it is anomalous and is at least the persistence_threshold-th
\* result of the current run of consecutive anomalous results; a
\* non-anomalous result is never confirmed, and a run interrupted by one
\* non-anomalous result builds up again from 1.
C28_ConfirmedIffPersistent ==
    (outcome.op = "process" /\ outcome.ok
        /\ tracker.persistence_threshold >= 1) =>
        LET run == TrailingAnomalous(calls)
            n == Len(calls)
            plain == DetectResult(detector, outcome.arg)
            marked == outcome.result.explanation.confirmed
        IN /\ marked <=> (outcome.result.is_anomaly
                            /\ run >= tracker.persistence_threshold)
           /\ ~outcome.result.is_anomaly => ~marked
           /\ ~marked => outcome.result = plain
           /\ marked => /\ outcome.result.confidence >= plain.confidence
                        /\ outcome.result.explanation.intervals = run
           /\ (n >= 2 /\ calls[n - 1].ok /\ ~calls[n - 1].result.is_anomaly
                  /\ outcome.result.is_anomaly) =>
                 /\ run = 1
                 /\ marked <=> tracker.persistence_threshold = 1

\* anomalous, normal, anomalous, anomalous with a threshold of 2: the third
\* result starts a new run and is not confirmed, the fourth is
C28_Witness ==
    /\ outcome.op = "process"
    /\ outcome.ok
    /\ tracker.persistence_threshold = 2
    /\ Len(calls) = 4
    /\ calls[1].ok /\ calls[1].result.is_anomaly
    /\ calls[2].ok /\ ~calls[2].result.is_anomaly
    /\ calls[3].result.is_anomaly
    /\ ~calls[3].result.explanation.confirmed
    /\ outcome.result.explanation.confirmed
    /\ TrailingAnomalous(calls) = 2

\* C29: on the API server, after any sequence of /train, /train/synthetic,
\* /model/load, /model/reset and /detect requests, failing ones included, the
\* realtime tracker is present exactly when an anomaly detector is installed,
\* and the detector it wraps is the installed instance.
C29_TrackerFollowsDetector ==
    /\ (server.realtime_detector # <<>>) <=> (server.anomaly_detector # <<>>)
    /\ server.realtime_detector # <<>> =>
          server.realtime_detector[1].detector = server.anomaly_detector[1]

\* C30: on the API server, a /train or /train/synthetic request whose
\* detector training fails (too little data, or an error raised inside
\* train) leaves the trained detector installed before it in service: a
\* /detect that was let through before the request is let through after it
\* and is answered by the same detector and tracker.
C30_FailedTrainKeepsService ==
    (/\ outcome.op \in {"/train", "/train/synthetic"}
     /\ outcome.requested
     /\ ~outcome.trained
     /\ ModelTrained(outcome.previous))
        => /\ ModelTrained(server)
           /\ server.anomaly_detector = outcome.previous.anomaly_detector
           /\ server.realtime_detector = outcome.previous.realtime_detector

====
